---------------------------- MODULE Spec2Model ----------------------------
(***************************************************************************)
(* A model of the strands-agent-graph service.                             *)
(*                                                                         *)
(*   src/agent_graph.py   the request entry point invoke_agent_graph, the  *)
(*                        tool catalog fetch, the keyword routing, the     *)
(*                        result aggregation                               *)
(*   src/frontend_app.py  the response decoder process_agent_response      *)
(*                                                                         *)
(* Text is modelled as a sequence of one-character strings, so that        *)
(* lower(), strip(), substring tests, JSON encoding and JSON parsing are   *)
(* computed character by character as the Python code computes them.       *)
(***************************************************************************)
EXTENDS Integers, Sequences, FiniteSets, TLC

VARIABLES
    pc,         \* invoke_agent_graph: where the request is
    env,        \* the environment variables GATEWAY_URL and COGNITO_SCOPE
    payload,    \* the inbound payload
    user_message,   \* the resolved prompt
    mcp,        \* the gateway session (with mcp_client:) and what was done in it
    exc,        \* the exception propagating out of the with block, if any
    agents,     \* the agents built so far, each with its tools
    graph,      \* the GraphRun: node states, scheduled nodes, NodeResults
    structured_response,    \* the Report the aggregation built
    yielded,    \* the messages the request has yielded, in order
    fetch,      \* get_full_tools_list: the loop's locals and the calls it made
    remote,     \* the gateway's paginated tool listing
    route,      \* _filter_tools_by_keyword applied to a catalog: input and result
    decode,     \* process_agent_response applied to a response: input and result
    chat,       \* the chat page: st.session_state.messages, the turns taken, and
                \* where the script stands
    streaming   \* one generator of TavilyAgentFactory.stream: the agent's events,
                \* where the generator stands and what it has yielded

-----------------------------------------------------------------------------
(* Bounds of the model *)

\* pages a terminating remote serves
MaxPages == 3
\* tools on one page
MaxPageLen == 2
\* listing calls one fetch is followed for (the code itself has no limit)
MaxListCalls == 5
\* length of a catalog handed to the router
MaxCatalog == 3

-----------------------------------------------------------------------------
(* Text.  A character is a one-character string: the characters of        *)
(* Latin-1 and those of OtherChars are written as they are, every other    *)
(* character by its escape name, as one element ("\\u3000" is U+3000,       *)
(* "\\U0001f600" is U+1F600; so are NUL, "\\x00", and the backquote,        *)
(* "\\x60").  The classes of the characters (letter case, whitespace,      *)
(* printable) are those of the Unicode database of CPython 3.11 (Unicode   *)
(* 14.0), held as ranges of codes.                                         *)

\* chr(code) for the codes 0 to 255, at index code + 1
Latin1 ==
    << "\\x00", "", "", "", "", "", "", "", "", "\t", "\n", "",
       "\f", "\r", "", "", "", "", "", "", "", "", "", "",
       "", "", "", "", "", "", "", "", " ", "!", "\"", "#",
       "$", "%", "&", "'", "(", ")", "*", "+", ",", "-", ".", "/",
       "0", "1", "2", "3", "4", "5", "6", "7", "8", "9", ":", ";",
       "<", "=", ">", "?", "@", "A", "B", "C", "D", "E", "F", "G",
       "H", "I", "J", "K", "L", "M", "N", "O", "P", "Q", "R", "S",
       "T", "U", "V", "W", "X", "Y", "Z", "[", "\\", "]", "^", "_",
       "\\x60", "a", "b", "c", "d", "e", "f", "g", "h", "i", "j", "k",
       "l", "m", "n", "o", "p", "q", "r", "s", "t", "u", "v", "w",
       "x", "y", "z", "{", "|", "}", "~", "", "", "", "", "",
       "", "", "", "", "", "", "", "", "", "", "", "",
       "", "", "", "", "", "", "", "", "", "", "", "",
       "", "", "", "", " ", "¡", "¢", "£", "¤", "¥", "¦", "§",
       "¨", "©", "ª", "«", "¬", "­", "®", "¯", "°", "±", "²", "³",
       "´", "µ", "¶", "·", "¸", "¹", "º", "»", "¼", "½", "¾", "¿",
       "À", "Á", "Â", "Ã", "Ä", "Å", "Æ", "Ç", "È", "É", "Ê", "Ë",
       "Ì", "Í", "Î", "Ï", "Ð", "Ñ", "Ò", "Ó", "Ô", "Õ", "Ö", "×",
       "Ø", "Ù", "Ú", "Û", "Ü", "Ý", "Þ", "ß", "à", "á", "â", "ã",
       "ä", "å", "æ", "ç", "è", "é", "ê", "ë", "ì", "í", "î", "ï",
       "ð", "ñ", "ò", "ó", "ô", "õ", "ö", "÷", "ø", "ù", "ú", "û",
       "ü", "ý", "þ", "ÿ" >>

\* the characters beyond Latin-1 that are written as they are, each with
\* its code
OtherChars ==
    << <<913, "Α">>, <<931, "Σ">>, <<945, "α">>, <<962, "ς">>,
       <<963, "σ">>, <<5760, " ">>, <<7838, "ẞ">> >>

Latin1Set == {Latin1[i] : i \in 1..256}

HexDigits == <<"0","1","2","3","4","5","6","7","8","9","a","b","c","d","e","f">>
HexAll == HexDigits \o <<"A","B","C","D","E","F">>
HexChars == {HexAll[i] : i \in 1..22}
HexIndex(c) == CHOOSE i \in 1..22 : HexAll[i] = c
HexVal(c) == IF HexIndex(c) <= 16 THEN HexIndex(c) - 1 ELSE HexIndex(c) - 7

\* the element is an escape name: \\xXX, \\uXXXX or \\UXXXXXXXX
IsEscapeName(c) ==
    /\ Len(c) \in {4, 6, 10}
    /\ SubSeq(c, 1, 2) = (CASE Len(c) = 4 -> "\\x" [] Len(c) = 6 -> "\\u" [] OTHER -> "\\U")
    /\ \A k \in 3..Len(c) : SubSeq(c, k, k) \in HexChars

\* the number written by the hexadecimal digits h
RECURSIVE HexCode(_)
HexCode(h) ==
    IF Len(h) = 0 THEN 0
    ELSE HexCode(SubSeq(h, 1, Len(h) - 1)) * 16 + HexVal(SubSeq(h, Len(h), Len(h)))

LatinCode == [c \in Latin1Set |-> (CHOOSE i \in 1..256 : Latin1[i] = c) - 1]

\* ord(c).  An element that stands for a whole literal of the source has no
\* code (-1): it is in no class and no operation changes it
Ord(c) ==
    IF c \in Latin1Set THEN LatinCode[c]
    ELSE IF \E i \in 1..Len(OtherChars) : OtherChars[i][2] = c
    THEN OtherChars[CHOOSE i \in 1..Len(OtherChars) : OtherChars[i][2] = c][1]
    ELSE IF IsEscapeName(c) THEN HexCode(SubSeq(c, 3, Len(c)))
    ELSE -1

\* the hexadecimal digit of n's last four bits
HexDigit(n) == HexDigits[(n % 16) + 1]

\* the escape name of a character that is not written as it is
EscapeName(code) ==
    IF code < 65536
    THEN "\\u" \o HexDigit(code \div 4096) \o HexDigit(code \div 256)
               \o HexDigit(code \div 16) \o HexDigit(code)
    ELSE "\\U00" \o HexDigit(code \div 1048576)
                  \o HexDigit(code \div 65536)
                  \o HexDigit(code \div 4096) \o HexDigit(code \div 256)
                  \o HexDigit(code \div 16) \o HexDigit(code)

\* chr(code)
Chr(code) ==
    IF code < 256 THEN Latin1[code + 1]
    ELSE IF \E i \in 1..Len(OtherChars) : OtherChars[i][1] = code
    THEN OtherChars[CHOOSE i \in 1..Len(OtherChars) : OtherChars[i][1] = code][2]
    ELSE EscapeName(code)

\* the code is in one of the ranges <<first, last>> of the table
InRanges(code, table) ==
    \E i \in 1..Len(table) : table[i][1] <= code /\ code <= table[i][2]

\* the characters with a lower case of their own, in runs
\* <<first, last, step, offset>>: every step-th code from first to last has
\* its lower case at the code plus offset
LowerRuns ==
    << <<65, 90, 1, 32>>, <<192, 214, 1, 32>>, <<216, 222, 1, 32>>, <<256, 302, 2, 1>>,
       <<306, 310, 2, 1>>, <<313, 327, 2, 1>>, <<330, 374, 2, 1>>, <<376, 376, 1, -121>>,
       <<377, 381, 2, 1>>, <<385, 385, 1, 210>>, <<386, 388, 2, 1>>, <<390, 390, 1, 206>>,
       <<391, 391, 1, 1>>, <<393, 394, 1, 205>>, <<395, 395, 1, 1>>, <<398, 398, 1, 79>>,
       <<399, 399, 1, 202>>, <<400, 400, 1, 203>>, <<401, 401, 1, 1>>, <<403, 403, 1, 205>>,
       <<404, 404, 1, 207>>, <<406, 406, 1, 211>>, <<407, 407, 1, 209>>, <<408, 408, 1, 1>>,
       <<412, 412, 1, 211>>, <<413, 413, 1, 213>>, <<415, 415, 1, 214>>, <<416, 420, 2, 1>>,
       <<422, 422, 1, 218>>, <<423, 423, 1, 1>>, <<425, 425, 1, 218>>, <<428, 428, 1, 1>>,
       <<430, 430, 1, 218>>, <<431, 431, 1, 1>>, <<433, 434, 1, 217>>, <<435, 437, 2, 1>>,
       <<439, 439, 1, 219>>, <<440, 440, 1, 1>>, <<444, 444, 1, 1>>, <<452, 452, 1, 2>>,
       <<453, 453, 1, 1>>, <<455, 455, 1, 2>>, <<456, 456, 1, 1>>, <<458, 458, 1, 2>>,
       <<459, 475, 2, 1>>, <<478, 494, 2, 1>>, <<497, 497, 1, 2>>, <<498, 500, 2, 1>>,
       <<502, 502, 1, -97>>, <<503, 503, 1, -56>>, <<504, 542, 2, 1>>, <<544, 544, 1, -130>>,
       <<546, 562, 2, 1>>, <<570, 570, 1, 10795>>, <<571, 571, 1, 1>>, <<573, 573, 1, -163>>,
       <<574, 574, 1, 10792>>, <<577, 577, 1, 1>>, <<579, 579, 1, -195>>, <<580, 580, 1, 69>>,
       <<581, 581, 1, 71>>, <<582, 590, 2, 1>>, <<880, 882, 2, 1>>, <<886, 886, 1, 1>>,
       <<895, 895, 1, 116>>, <<902, 902, 1, 38>>, <<904, 906, 1, 37>>, <<908, 908, 1, 64>>,
       <<910, 911, 1, 63>>, <<913, 929, 1, 32>>, <<931, 939, 1, 32>>, <<975, 975, 1, 8>>,
       <<984, 1006, 2, 1>>, <<1012, 1012, 1, -60>>, <<1015, 1015, 1, 1>>, <<1017, 1017, 1, -7>>,
       <<1018, 1018, 1, 1>>, <<1021, 1023, 1, -130>>, <<1024, 1039, 1, 80>>, <<1040, 1071, 1, 32>>,
       <<1120, 1152, 2, 1>>, <<1162, 1214, 2, 1>>, <<1216, 1216, 1, 15>>, <<1217, 1229, 2, 1>>,
       <<1232, 1326, 2, 1>>, <<1329, 1366, 1, 48>>, <<4256, 4293, 1, 7264>>, <<4295, 4295, 1, 7264>>,
       <<4301, 4301, 1, 7264>>, <<5024, 5103, 1, 38864>>, <<5104, 5109, 1, 8>>, <<7312, 7354, 1, -3008>>,
       <<7357, 7359, 1, -3008>>, <<7680, 7828, 2, 1>>, <<7838, 7838, 1, -7615>>, <<7840, 7934, 2, 1>>,
       <<7944, 7951, 1, -8>>, <<7960, 7965, 1, -8>>, <<7976, 7983, 1, -8>>, <<7992, 7999, 1, -8>>,
       <<8008, 8013, 1, -8>>, <<8025, 8031, 2, -8>>, <<8040, 8047, 1, -8>>, <<8072, 8079, 1, -8>>,
       <<8088, 8095, 1, -8>>, <<8104, 8111, 1, -8>>, <<8120, 8121, 1, -8>>, <<8122, 8123, 1, -74>>,
       <<8124, 8124, 1, -9>>, <<8136, 8139, 1, -86>>, <<8140, 8140, 1, -9>>, <<8152, 8153, 1, -8>>,
       <<8154, 8155, 1, -100>>, <<8168, 8169, 1, -8>>, <<8170, 8171, 1, -112>>, <<8172, 8172, 1, -7>>,
       <<8184, 8185, 1, -128>>, <<8186, 8187, 1, -126>>, <<8188, 8188, 1, -9>>, <<8486, 8486, 1, -7517>>,
       <<8490, 8490, 1, -8383>>, <<8491, 8491, 1, -8262>>, <<8498, 8498, 1, 28>>, <<8544, 8559, 1, 16>>,
       <<8579, 8579, 1, 1>>, <<9398, 9423, 1, 26>>, <<11264, 11311, 1, 48>>, <<11360, 11360, 1, 1>>,
       <<11362, 11362, 1, -10743>>, <<11363, 11363, 1, -3814>>, <<11364, 11364, 1, -10727>>, <<11367, 11371, 2, 1>>,
       <<11373, 11373, 1, -10780>>, <<11374, 11374, 1, -10749>>, <<11375, 11375, 1, -10783>>, <<11376, 11376, 1, -10782>>,
       <<11378, 11378, 1, 1>>, <<11381, 11381, 1, 1>>, <<11390, 11391, 1, -10815>>, <<11392, 11490, 2, 1>>,
       <<11499, 11501, 2, 1>>, <<11506, 11506, 1, 1>>, <<42560, 42604, 2, 1>>, <<42624, 42650, 2, 1>>,
       <<42786, 42798, 2, 1>>, <<42802, 42862, 2, 1>>, <<42873, 42875, 2, 1>>, <<42877, 42877, 1, -35332>>,
       <<42878, 42886, 2, 1>>, <<42891, 42891, 1, 1>>, <<42893, 42893, 1, -42280>>, <<42896, 42898, 2, 1>>,
       <<42902, 42920, 2, 1>>, <<42922, 42922, 1, -42308>>, <<42923, 42923, 1, -42319>>, <<42924, 42924, 1, -42315>>,
       <<42925, 42925, 1, -42305>>, <<42926, 42926, 1, -42308>>, <<42928, 42928, 1, -42258>>, <<42929, 42929, 1, -42282>>,
       <<42930, 42930, 1, -42261>>, <<42931, 42931, 1, 928>>, <<42932, 42946, 2, 1>>, <<42948, 42948, 1, -48>>,
       <<42949, 42949, 1, -42307>>, <<42950, 42950, 1, -35384>>, <<42951, 42953, 2, 1>>, <<42960, 42960, 1, 1>>,
       <<42966, 42968, 2, 1>>, <<42997, 42997, 1, 1>>, <<65313, 65338, 1, 32>>, <<66560, 66599, 1, 40>>,
       <<66736, 66771, 1, 40>>, <<66928, 66938, 1, 39>>, <<66940, 66954, 1, 39>>, <<66956, 66962, 1, 39>>,
       <<66964, 66965, 1, 39>>, <<68736, 68786, 1, 64>>, <<71840, 71871, 1, 32>>, <<93760, 93791, 1, 32>>,
       <<125184, 125217, 1, 34>> >>

InRun(code, run) ==
    run[1] <= code /\ code <= run[2] /\ (code - run[1]) % run[3] = 0

\* the code of the lower case of the character with this code
LowerCode(code) ==
    IF \E i \in 1..Len(LowerRuns) : InRun(code, LowerRuns[i])
    THEN code + LowerRuns[CHOOSE i \in 1..Len(LowerRuns) : InRun(code, LowerRuns[i])][4]
    ELSE code

CapitalSigma == "Σ"
SmallSigma == "σ"
FinalSigma == "ς"
\* the capital I with dot, the one character whose lower case is two
DottedI == "\\u0130"

\* the characters the final-sigma rule of str.lower() passes over
\* (Case_Ignorable)
CaseIgnorableRanges ==
    << <<39, 39>>, <<46, 46>>, <<58, 58>>, <<94, 94>>, <<96, 96>>, <<168, 168>>,
       <<173, 173>>, <<175, 175>>, <<180, 180>>, <<183, 184>>, <<688, 879>>, <<884, 885>>,
       <<890, 890>>, <<900, 901>>, <<903, 903>>, <<1155, 1161>>, <<1369, 1369>>, <<1375, 1375>>,
       <<1425, 1469>>, <<1471, 1471>>, <<1473, 1474>>, <<1476, 1477>>, <<1479, 1479>>, <<1524, 1524>>,
       <<1536, 1541>>, <<1552, 1562>>, <<1564, 1564>>, <<1600, 1600>>, <<1611, 1631>>, <<1648, 1648>>,
       <<1750, 1757>>, <<1759, 1768>>, <<1770, 1773>>, <<1807, 1807>>, <<1809, 1809>>, <<1840, 1866>>,
       <<1958, 1968>>, <<2027, 2037>>, <<2042, 2042>>, <<2045, 2045>>, <<2070, 2093>>, <<2137, 2139>>,
       <<2184, 2184>>, <<2192, 2193>>, <<2200, 2207>>, <<2249, 2306>>, <<2362, 2362>>, <<2364, 2364>>,
       <<2369, 2376>>, <<2381, 2381>>, <<2385, 2391>>, <<2402, 2403>>, <<2417, 2417>>, <<2433, 2433>>,
       <<2492, 2492>>, <<2497, 2500>>, <<2509, 2509>>, <<2530, 2531>>, <<2558, 2558>>, <<2561, 2562>>,
       <<2620, 2620>>, <<2625, 2626>>, <<2631, 2632>>, <<2635, 2637>>, <<2641, 2641>>, <<2672, 2673>>,
       <<2677, 2677>>, <<2689, 2690>>, <<2748, 2748>>, <<2753, 2757>>, <<2759, 2760>>, <<2765, 2765>>,
       <<2786, 2787>>, <<2810, 2815>>, <<2817, 2817>>, <<2876, 2876>>, <<2879, 2879>>, <<2881, 2884>>,
       <<2893, 2893>>, <<2901, 2902>>, <<2914, 2915>>, <<2946, 2946>>, <<3008, 3008>>, <<3021, 3021>>,
       <<3072, 3072>>, <<3076, 3076>>, <<3132, 3132>>, <<3134, 3136>>, <<3142, 3144>>, <<3146, 3149>>,
       <<3157, 3158>>, <<3170, 3171>>, <<3201, 3201>>, <<3260, 3260>>, <<3263, 3263>>, <<3270, 3270>>,
       <<3276, 3277>>, <<3298, 3299>>, <<3328, 3329>>, <<3387, 3388>>, <<3393, 3396>>, <<3405, 3405>>,
       <<3426, 3427>>, <<3457, 3457>>, <<3530, 3530>>, <<3538, 3540>>, <<3542, 3542>>, <<3633, 3633>>,
       <<3636, 3642>>, <<3654, 3662>>, <<3761, 3761>>, <<3764, 3772>>, <<3782, 3782>>, <<3784, 3789>>,
       <<3864, 3865>>, <<3893, 3893>>, <<3895, 3895>>, <<3897, 3897>>, <<3953, 3966>>, <<3968, 3972>>,
       <<3974, 3975>>, <<3981, 3991>>, <<3993, 4028>>, <<4038, 4038>>, <<4141, 4144>>, <<4146, 4151>>,
       <<4153, 4154>>, <<4157, 4158>>, <<4184, 4185>>, <<4190, 4192>>, <<4209, 4212>>, <<4226, 4226>>,
       <<4229, 4230>>, <<4237, 4237>>, <<4253, 4253>>, <<4348, 4348>>, <<4957, 4959>>, <<5906, 5908>>,
       <<5938, 5939>>, <<5970, 5971>>, <<6002, 6003>>, <<6068, 6069>>, <<6071, 6077>>, <<6086, 6086>>,
       <<6089, 6099>>, <<6103, 6103>>, <<6109, 6109>>, <<6155, 6159>>, <<6211, 6211>>, <<6277, 6278>>,
       <<6313, 6313>>, <<6432, 6434>>, <<6439, 6440>>, <<6450, 6450>>, <<6457, 6459>>, <<6679, 6680>>,
       <<6683, 6683>>, <<6742, 6742>>, <<6744, 6750>>, <<6752, 6752>>, <<6754, 6754>>, <<6757, 6764>>,
       <<6771, 6780>>, <<6783, 6783>>, <<6823, 6823>>, <<6832, 6862>>, <<6912, 6915>>, <<6964, 6964>>,
       <<6966, 6970>>, <<6972, 6972>>, <<6978, 6978>>, <<7019, 7027>>, <<7040, 7041>>, <<7074, 7077>>,
       <<7080, 7081>>, <<7083, 7085>>, <<7142, 7142>>, <<7144, 7145>>, <<7149, 7149>>, <<7151, 7153>>,
       <<7212, 7219>>, <<7222, 7223>>, <<7288, 7293>>, <<7376, 7378>>, <<7380, 7392>>, <<7394, 7400>>,
       <<7405, 7405>>, <<7412, 7412>>, <<7416, 7417>>, <<7468, 7530>>, <<7544, 7544>>, <<7579, 7679>>,
       <<8125, 8125>>, <<8127, 8129>>, <<8141, 8143>>, <<8157, 8159>>, <<8173, 8175>>, <<8189, 8190>>,
       <<8203, 8207>>, <<8216, 8217>>, <<8228, 8228>>, <<8231, 8231>>, <<8234, 8238>>, <<8288, 8292>>,
       <<8294, 8303>>, <<8305, 8305>>, <<8319, 8319>>, <<8336, 8348>>, <<8400, 8432>>, <<11388, 11389>>,
       <<11503, 11505>>, <<11631, 11631>>, <<11647, 11647>>, <<11744, 11775>>, <<11823, 11823>>, <<12293, 12293>>,
       <<12330, 12333>>, <<12337, 12341>>, <<12347, 12347>>, <<12441, 12446>>, <<12540, 12542>>, <<40981, 40981>>,
       <<42232, 42237>>, <<42508, 42508>>, <<42607, 42610>>, <<42612, 42621>>, <<42623, 42623>>, <<42652, 42655>>,
       <<42736, 42737>>, <<42752, 42785>>, <<42864, 42864>>, <<42888, 42890>>, <<42994, 42996>>, <<43000, 43001>>,
       <<43010, 43010>>, <<43014, 43014>>, <<43019, 43019>>, <<43045, 43046>>, <<43052, 43052>>, <<43204, 43205>>,
       <<43232, 43249>>, <<43263, 43263>>, <<43302, 43309>>, <<43335, 43345>>, <<43392, 43394>>, <<43443, 43443>>,
       <<43446, 43449>>, <<43452, 43453>>, <<43471, 43471>>, <<43493, 43494>>, <<43561, 43566>>, <<43569, 43570>>,
       <<43573, 43574>>, <<43587, 43587>>, <<43596, 43596>>, <<43632, 43632>>, <<43644, 43644>>, <<43696, 43696>>,
       <<43698, 43700>>, <<43703, 43704>>, <<43710, 43711>>, <<43713, 43713>>, <<43741, 43741>>, <<43756, 43757>>,
       <<43763, 43764>>, <<43766, 43766>>, <<43867, 43871>>, <<43881, 43883>>, <<44005, 44005>>, <<44008, 44008>>,
       <<44013, 44013>>, <<64286, 64286>>, <<64434, 64450>>, <<65024, 65039>>, <<65043, 65043>>, <<65056, 65071>>,
       <<65106, 65106>>, <<65109, 65109>>, <<65279, 65279>>, <<65287, 65287>>, <<65294, 65294>>, <<65306, 65306>>,
       <<65342, 65342>>, <<65344, 65344>>, <<65392, 65392>>, <<65438, 65439>>, <<65507, 65507>>, <<65529, 65531>>,
       <<66045, 66045>>, <<66272, 66272>>, <<66422, 66426>>, <<67456, 67461>>, <<67463, 67504>>, <<67506, 67514>>,
       <<68097, 68099>>, <<68101, 68102>>, <<68108, 68111>>, <<68152, 68154>>, <<68159, 68159>>, <<68325, 68326>>,
       <<68900, 68903>>, <<69291, 69292>>, <<69446, 69456>>, <<69506, 69509>>, <<69633, 69633>>, <<69688, 69702>>,
       <<69744, 69744>>, <<69747, 69748>>, <<69759, 69761>>, <<69811, 69814>>, <<69817, 69818>>, <<69821, 69821>>,
       <<69826, 69826>>, <<69837, 69837>>, <<69888, 69890>>, <<69927, 69931>>, <<69933, 69940>>, <<70003, 70003>>,
       <<70016, 70017>>, <<70070, 70078>>, <<70089, 70092>>, <<70095, 70095>>, <<70191, 70193>>, <<70196, 70196>>,
       <<70198, 70199>>, <<70206, 70206>>, <<70367, 70367>>, <<70371, 70378>>, <<70400, 70401>>, <<70459, 70460>>,
       <<70464, 70464>>, <<70502, 70508>>, <<70512, 70516>>, <<70712, 70719>>, <<70722, 70724>>, <<70726, 70726>>,
       <<70750, 70750>>, <<70835, 70840>>, <<70842, 70842>>, <<70847, 70848>>, <<70850, 70851>>, <<71090, 71093>>,
       <<71100, 71101>>, <<71103, 71104>>, <<71132, 71133>>, <<71219, 71226>>, <<71229, 71229>>, <<71231, 71232>>,
       <<71339, 71339>>, <<71341, 71341>>, <<71344, 71349>>, <<71351, 71351>>, <<71453, 71455>>, <<71458, 71461>>,
       <<71463, 71467>>, <<71727, 71735>>, <<71737, 71738>>, <<71995, 71996>>, <<71998, 71998>>, <<72003, 72003>>,
       <<72148, 72151>>, <<72154, 72155>>, <<72160, 72160>>, <<72193, 72202>>, <<72243, 72248>>, <<72251, 72254>>,
       <<72263, 72263>>, <<72273, 72278>>, <<72281, 72283>>, <<72330, 72342>>, <<72344, 72345>>, <<72752, 72758>>,
       <<72760, 72765>>, <<72767, 72767>>, <<72850, 72871>>, <<72874, 72880>>, <<72882, 72883>>, <<72885, 72886>>,
       <<73009, 73014>>, <<73018, 73018>>, <<73020, 73021>>, <<73023, 73029>>, <<73031, 73031>>, <<73104, 73105>>,
       <<73109, 73109>>, <<73111, 73111>>, <<73459, 73460>>, <<78896, 78904>>, <<92912, 92916>>, <<92976, 92982>>,
       <<92992, 92995>>, <<94031, 94031>>, <<94095, 94111>>, <<94176, 94177>>, <<94179, 94180>>, <<110576, 110579>>,
       <<110581, 110587>>, <<110589, 110590>>, <<113821, 113822>>, <<113824, 113827>>, <<118528, 118573>>, <<118576, 118598>>,
       <<119143, 119145>>, <<119155, 119170>>, <<119173, 119179>>, <<119210, 119213>>, <<119362, 119364>>, <<121344, 121398>>,
       <<121403, 121452>>, <<121461, 121461>>, <<121476, 121476>>, <<121499, 121503>>, <<121505, 121519>>, <<122880, 122886>>,
       <<122888, 122904>>, <<122907, 122913>>, <<122915, 122916>>, <<122918, 122922>>, <<123184, 123197>>, <<123566, 123566>>,
       <<123628, 123631>>, <<125136, 125142>>, <<125252, 125259>>, <<127995, 127999>>, <<917505, 917505>>, <<917536, 917631>>,
       <<917760, 917999>> >>

\* the cased characters among those the rule does not pass over (Cased)
CasedRanges ==
    << <<65, 90>>, <<97, 122>>, <<170, 170>>, <<181, 181>>, <<186, 186>>, <<192, 214>>,
       <<216, 246>>, <<248, 442>>, <<444, 447>>, <<452, 659>>, <<661, 687>>, <<880, 883>>,
       <<886, 887>>, <<891, 893>>, <<895, 895>>, <<902, 902>>, <<904, 906>>, <<908, 908>>,
       <<910, 929>>, <<931, 1013>>, <<1015, 1153>>, <<1162, 1327>>, <<1329, 1366>>, <<1376, 1416>>,
       <<4256, 4293>>, <<4295, 4295>>, <<4301, 4301>>, <<4304, 4346>>, <<4349, 4351>>, <<5024, 5109>>,
       <<5112, 5117>>, <<7296, 7304>>, <<7312, 7354>>, <<7357, 7359>>, <<7424, 7467>>, <<7531, 7543>>,
       <<7545, 7578>>, <<7680, 7957>>, <<7960, 7965>>, <<7968, 8005>>, <<8008, 8013>>, <<8016, 8023>>,
       <<8025, 8025>>, <<8027, 8027>>, <<8029, 8029>>, <<8031, 8061>>, <<8064, 8116>>, <<8118, 8124>>,
       <<8126, 8126>>, <<8130, 8132>>, <<8134, 8140>>, <<8144, 8147>>, <<8150, 8155>>, <<8160, 8172>>,
       <<8178, 8180>>, <<8182, 8188>>, <<8450, 8450>>, <<8455, 8455>>, <<8458, 8467>>, <<8469, 8469>>,
       <<8473, 8477>>, <<8484, 8484>>, <<8486, 8486>>, <<8488, 8488>>, <<8490, 8493>>, <<8495, 8500>>,
       <<8505, 8505>>, <<8508, 8511>>, <<8517, 8521>>, <<8526, 8526>>, <<8544, 8575>>, <<8579, 8580>>,
       <<9398, 9449>>, <<11264, 11387>>, <<11390, 11492>>, <<11499, 11502>>, <<11506, 11507>>, <<11520, 11557>>,
       <<11559, 11559>>, <<11565, 11565>>, <<42560, 42605>>, <<42624, 42651>>, <<42786, 42863>>, <<42865, 42887>>,
       <<42891, 42894>>, <<42896, 42954>>, <<42960, 42961>>, <<42963, 42963>>, <<42965, 42969>>, <<42997, 42998>>,
       <<43002, 43002>>, <<43824, 43866>>, <<43872, 43880>>, <<43888, 43967>>, <<64256, 64262>>, <<64275, 64279>>,
       <<65313, 65338>>, <<65345, 65370>>, <<66560, 66639>>, <<66736, 66771>>, <<66776, 66811>>, <<66928, 66938>>,
       <<66940, 66954>>, <<66956, 66962>>, <<66964, 66965>>, <<66967, 66977>>, <<66979, 66993>>, <<66995, 67001>>,
       <<67003, 67004>>, <<68736, 68786>>, <<68800, 68850>>, <<71840, 71903>>, <<93760, 93823>>, <<119808, 119892>>,
       <<119894, 119964>>, <<119966, 119967>>, <<119970, 119970>>, <<119973, 119974>>, <<119977, 119980>>, <<119982, 119993>>,
       <<119995, 119995>>, <<119997, 120003>>, <<120005, 120069>>, <<120071, 120074>>, <<120077, 120084>>, <<120086, 120092>>,
       <<120094, 120121>>, <<120123, 120126>>, <<120128, 120132>>, <<120134, 120134>>, <<120138, 120144>>, <<120146, 120485>>,
       <<120488, 120512>>, <<120514, 120538>>, <<120540, 120570>>, <<120572, 120596>>, <<120598, 120628>>, <<120630, 120654>>,
       <<120656, 120686>>, <<120688, 120712>>, <<120714, 120744>>, <<120746, 120770>>, <<120772, 120779>>, <<122624, 122633>>,
       <<122635, 122654>>, <<125184, 125251>>, <<127280, 127305>>, <<127312, 127337>>, <<127344, 127369>> >>

\* the classes of the characters of Latin-1, taken from the tables once
LatinLower == [c \in Latin1Set |-> Chr(LowerCode(LatinCode[c]))]
LatinCaseIgnorable == {c \in Latin1Set : InRanges(LatinCode[c], CaseIgnorableRanges)}
LatinCased == {c \in Latin1Set : InRanges(LatinCode[c], CasedRanges)}

IsCaseIgnorable(c) ==
    IF c \in Latin1Set THEN c \in LatinCaseIgnorable
    ELSE InRanges(Ord(c), CaseIgnorableRanges)

IsCased(c) ==
    IF c \in Latin1Set THEN c \in LatinCased ELSE InRanges(Ord(c), CasedRanges)

\* str.lower() on a text of the one character c
LowerChar(c) ==
    IF c \in Latin1Set THEN <<LatinLower[c]>>
    ELSE IF c = DottedI THEN <<"i", Chr(775)>>
    ELSE IF Ord(c) < 0 THEN <<c>>
    ELSE <<Chr(LowerCode(Ord(c)))>>

\* the capital sigma at i ends a word: a cased character stands before it
\* and none after it, case-ignorable characters passed over
InFinalSigma(s, i) ==
    /\ \E j \in 1..(i - 1) :
          /\ ~IsCaseIgnorable(s[j]) /\ IsCased(s[j])
          /\ \A k \in (j + 1)..(i - 1) : IsCaseIgnorable(s[k])
    /\ ~\E j \in (i + 1)..Len(s) :
          /\ ~IsCaseIgnorable(s[j]) /\ IsCased(s[j])
          /\ \A k \in (i + 1)..(j - 1) : IsCaseIgnorable(s[k])

\* the lower case of the character at i of s
LowerAt(s, i) ==
    IF s[i] = CapitalSigma /\ InFinalSigma(s, i) THEN <<FinalSigma>>
    ELSE LowerChar(s[i])

\* the lower cases of the characters from a to b (by halves)
RECURSIVE LowerSpread(_, _, _)
LowerSpread(s, a, b) ==
    IF a > b THEN <<>>
    ELSE IF a = b THEN LowerAt(s, a)
    ELSE LowerSpread(s, a, (a + b) \div 2) \o LowerSpread(s, (a + b) \div 2 + 1, b)

\* str.lower()
LowerStr(s) ==
    IF \A i \in 1..Len(s) : s[i] \in Latin1Set
    THEN [i \in 1..Len(s) |-> LatinLower[s[i]]]
    ELSE LowerSpread(s, 1, Len(s))

\* Python's  key in text  on strings: key occurs as a contiguous substring
Contains(text, key) ==
    \E i \in 0..(Len(text) - Len(key)) : SubSeq(text, i + 1, i + Len(key)) = key

-----------------------------------------------------------------------------
(* Tools.  A tool object carries its name in the attribute tool_name, or   *)
(* in the attribute name, or only in its str(); an attribute the object    *)
(* lacks is a field the record lacks.                                      *)

SlackTool   == [tool_name |-> <<"S","l","a","c","k","_","g","e","t">>, str |-> <<"o","1">>]
TavilyTool  == [tool_name |-> <<"t","a","v","i","l","y","_","q">>, str |-> <<"o","2">>]
ExtractTool == [name |-> <<"w","e","b","E","x","t","r","a","c","t">>, str |-> <<"o","3">>]
PlainTool   == [str |-> <<"c","a","l","c">>]
BothTool    == [tool_name |-> <<"s","l","a","c","k","2","t","a","v","i","l","y">>, str |-> <<"o","5">>]

AllTools == {SlackTool, TavilyTool, ExtractTool, PlainTool, BothTool}

\* _get_tool_name: getattr(tool, "tool_name", getattr(tool, "name", str(tool)))
_get_tool_name(tool) ==
    IF "tool_name" \in DOMAIN tool THEN tool.tool_name
    ELSE IF "name" \in DOMAIN tool THEN tool.name
    ELSE tool.str

\* the test of the comprehension in _filter_tools_by_keyword, as a bug would
\* write it: the tool's name is not lowercased
MatchesCaseSensitive(tool, keyword) ==
    Contains(_get_tool_name(tool), LowerStr(keyword))

\* the test of the comprehension in _filter_tools_by_keyword:
\*   key = keyword.lower();  key in _get_tool_name(t).lower()
Matches(tool, keyword) ==
    Contains(LowerStr(_get_tool_name(tool)), LowerStr(keyword))

\* the list comprehension of _filter_tools_by_keyword: [t for t in tools if key in _get_tool_name(t).lower()]
RECURSIVE FilterFrom(_, _, _)
FilterFrom(tools, keyword, i) ==
    IF i > Len(tools) THEN <<>>
    ELSE IF Matches(tools[i], keyword)
         THEN <<tools[i]>> \o FilterFrom(tools, keyword, i + 1)
         ELSE FilterFrom(tools, keyword, i + 1)

_filter_tools_by_keyword(tools, keyword) == FilterFrom(tools, keyword, 1)

KwSlack   == <<"s","l","a","c","k">>
KwTavily  == <<"t","a","v","i","l","y">>
KwExtract == <<"e","x","t","r","a","c","t">>

-----------------------------------------------------------------------------
(* JSON.  A value is a pair of its kind and its content: a string, a number *)
(* (its digits), an array, an object, a boolean or null; an object keeps    *)
(* its members in insertion order, as a Python dict does.                   *)

JStr(s) == <<"str", s>>
JNum(d) == <<"num", d>>
JArr(items) == <<"arr", items>>
JObj(members) == <<"obj", members>>
JBool(b) == <<"bool", b>>
JNull == <<"null", <<>>>>

L_true  == <<"t","r","u","e">>
L_false == <<"f","a","l","s","e">>
L_null  == <<"n","u","l","l">>

Quote == "\""
Backslash == "\\"
Newline == "\n"
Space == " "
\* the whitespace of JSON
Whitespace == {Space, Newline, "\t", "\r"}
Digits == {"0","1","2","3","4","5","6","7","8","9"}
DigitSeq == <<"0","1","2","3","4","5","6","7","8","9">>

\* the characters str.isspace() holds for, which str.strip() removes (all
\* of them)
PyWhitespace ==
    { "\t", "\n", "", "\f", "\r", "", "", "", "", " ", "", " ",
      " ", "\\u2000", "\\u2001", "\\u2002", "\\u2003", "\\u2004", "\\u2005", "\\u2006", "\\u2007", "\\u2008", "\\u2009", "\\u200a",
      "\\u2028", "\\u2029", "\\u202f", "\\u205f", "\\u3000" }

\* the control characters, which JSON does not allow raw in a string
ControlChars == {Latin1[i] : i \in 1..32}

\* int(c) of a digit
DigitVal(c) == (CHOOSE i \in 1..10 : DigitSeq[i] = c) - 1

\* the digits of a natural number and the number of a short digit sequence
RECURSIVE NatStr(_)
NatStr(n) ==
    IF n < 10 THEN <<DigitSeq[n + 1]>>
    ELSE NatStr(n \div 10) \o <<DigitSeq[(n % 10) + 1]>>

RECURSIVE NatOf(_)
NatOf(d) ==
    IF d = <<>> THEN 0
    ELSE NatOf(SubSeq(d, 1, Len(d) - 1)) * 10 + DigitVal(d[Len(d)])

\* n zeros
Zeros(n) == [i \in 1..n |-> "0"]

\* sep.join(parts) (by halves)
RECURSIVE Join(_, _)
Join(parts, sep) ==
    IF parts = <<>> THEN <<>>
    ELSE IF Len(parts) = 1 THEN parts[1]
    ELSE LET half == Len(parts) \div 2
         IN  Join(SubSeq(parts, 1, half), sep) \o sep
               \o Join(SubSeq(parts, half + 1, Len(parts)), sep)

\* dict lookups
HasKey(obj, key) == \E i \in 1..Len(obj[2]) : obj[2][i][1] = key
Get(obj, key) == obj[2][CHOOSE i \in 1..Len(obj[2]) : obj[2][i][1] = key][2]

\* d[key] = value  on a dict: a key already present keeps its place
Put(members, key, value) ==
    IF \E i \in 1..Len(members) : members[i][1] = key
    THEN [i \in 1..Len(members) |->
            IF members[i][1] = key THEN <<key, value>> ELSE members[i]]
    ELSE Append(members, <<key, value>>)

\* the characters json.dumps escapes, each with its escape: the quote, the
\* backslash and the control characters
JsonEscapes ==
    << <<"\\x00", <<"\\", "u", "0", "0", "0", "0">>>>, <<"", <<"\\", "u", "0", "0", "0", "1">>>>, <<"", <<"\\", "u", "0", "0", "0", "2">>>>,
       <<"", <<"\\", "u", "0", "0", "0", "3">>>>, <<"", <<"\\", "u", "0", "0", "0", "4">>>>, <<"", <<"\\", "u", "0", "0", "0", "5">>>>,
       <<"", <<"\\", "u", "0", "0", "0", "6">>>>, <<"", <<"\\", "u", "0", "0", "0", "7">>>>, <<"", <<"\\", "b">>>>,
       <<"\t", <<"\\", "t">>>>, <<"\n", <<"\\", "n">>>>, <<"", <<"\\", "u", "0", "0", "0", "b">>>>,
       <<"\f", <<"\\", "f">>>>, <<"\r", <<"\\", "r">>>>, <<"", <<"\\", "u", "0", "0", "0", "e">>>>,
       <<"", <<"\\", "u", "0", "0", "0", "f">>>>, <<"", <<"\\", "u", "0", "0", "1", "0">>>>, <<"", <<"\\", "u", "0", "0", "1", "1">>>>,
       <<"", <<"\\", "u", "0", "0", "1", "2">>>>, <<"", <<"\\", "u", "0", "0", "1", "3">>>>, <<"", <<"\\", "u", "0", "0", "1", "4">>>>,
       <<"", <<"\\", "u", "0", "0", "1", "5">>>>, <<"", <<"\\", "u", "0", "0", "1", "6">>>>, <<"", <<"\\", "u", "0", "0", "1", "7">>>>,
       <<"", <<"\\", "u", "0", "0", "1", "8">>>>, <<"", <<"\\", "u", "0", "0", "1", "9">>>>, <<"", <<"\\", "u", "0", "0", "1", "a">>>>,
       <<"", <<"\\", "u", "0", "0", "1", "b">>>>, <<"", <<"\\", "u", "0", "0", "1", "c">>>>, <<"", <<"\\", "u", "0", "0", "1", "d">>>>,
       <<"", <<"\\", "u", "0", "0", "1", "e">>>>, <<"", <<"\\", "u", "0", "0", "1", "f">>>>, <<"\"", <<"\\", "\"">>>>,
       <<"\\", <<"\\", "\\">>>> >>

JsonEscaped == {JsonEscapes[i][1] : i \in 1..Len(JsonEscapes)}

\* json.dumps on one character of a string (ensure_ascii=False)
EscapeChar(c) ==
    IF c \notin JsonEscaped THEN <<c>>
    ELSE JsonEscapes[CHOOSE i \in 1..Len(JsonEscapes) : JsonEscapes[i][1] = c][2]

\* every character of the string escaped, in order (by halves)
RECURSIVE EscapeStr(_)
EscapeStr(s) ==
    IF s = <<>> THEN <<>>
    ELSE IF Len(s) = 1 THEN EscapeChar(s[1])
    ELSE LET half == Len(s) \div 2
         IN  EscapeStr(SubSeq(s, 1, half)) \o EscapeStr(SubSeq(s, half + 1, Len(s)))

DumpsStr(s) == <<Quote>> \o EscapeStr(s) \o <<Quote>>

\* a number is held as the text of its repr: an int as its digits with a
\* minus sign if negative, a float as float.__repr__ writes it
T_nan == <<"n","a","n">>
T_inf == <<"i","n","f">>
T_neginf == <<"-","i","n","f">>
L_NaN == <<"N","a","N">>
L_Infinity == <<"I","n","f","i","n","i","t","y">>

\* json.dumps of a number: float.__repr__, with JSON's names for nan and inf
DumpsNum(text) ==
    IF text = T_nan THEN L_NaN
    ELSE IF text = T_inf THEN L_Infinity
    ELSE IF text = T_neginf THEN <<"-">> \o L_Infinity
    ELSE text

\* json.dumps(value, ensure_ascii=False), with its separators ", " and ": "
RECURSIVE Dumps(_)
Dumps(value) ==
    CASE value[1] = "str" -> DumpsStr(value[2])
      [] value[1] = "num" -> DumpsNum(value[2])
      [] value[1] = "bool" -> (IF value[2] THEN L_true ELSE L_false)
      [] value[1] = "null" -> L_null
      [] value[1] = "arr" ->
            <<"[">> \o Join([i \in 1..Len(value[2]) |-> Dumps(value[2][i])],
                            <<",", Space>>) \o <<"]">>
      [] value[1] = "obj" ->
            <<"{">> \o Join([i \in 1..Len(value[2]) |->
                               DumpsStr(value[2][i][1]) \o <<":", Space>>
                                 \o Dumps(value[2][i][2])],
                            <<",", Space>>) \o <<"}">>

\* the result of a parse step: the value and the position after it, or a
\* failure (json.JSONDecodeError), or another exception with its message
Parsed(value, pos) == [ok |-> TRUE, val |-> value, pos |-> pos]
ParseFail == [ok |-> FALSE, raised |-> <<>>]
ParseRaise(message) == [ok |-> FALSE, raised |-> message]

\* the text has the word at position i
HasAt(s, i, word) ==
    i + Len(word) - 1 <= Len(s) /\ SubSeq(s, i, i + Len(word) - 1) = word

\* the first position at or after i that holds no JSON whitespace
SkipWs(s, i) ==
    IF \A j \in i..Len(s) : s[j] \in Whitespace THEN (IF i > Len(s) THEN i ELSE Len(s) + 1)
    ELSE CHOOSE j \in i..Len(s) :
            s[j] \notin Whitespace /\ \A k \in i..(j - 1) : s[k] \in Whitespace

\* the scanner reads a backslash together with the character after it: the
\* character at j is read as the second of such a pair exactly when an odd
\* number of backslashes stands directly before it (from position i on)
Escaped(s, i, j) ==
    /\ j > i
    /\ s[j - 1] = Backslash
    /\ Cardinality({k \in i..(j - 1) : \A m \in k..(j - 1) : s[m] = Backslash}) % 2 = 1

\* the position of the quote that closes the string whose characters start
\* at i: the first quote that is not escaped (0 if there is none)
StringEnd(s, i) ==
    IF \A j \in i..Len(s) : s[j] # Quote \/ Escaped(s, i, j) THEN 0
    ELSE CHOOSE j \in i..Len(s) :
            /\ s[j] = Quote /\ ~Escaped(s, i, j)
            /\ \A k \in i..(j - 1) : s[k] # Quote \/ Escaped(s, i, k)

\* a \uXXXX escape starts at p
IsUEscape(raw, p) ==
    /\ p >= 1
    /\ p < Len(raw)
    /\ raw[p] = Backslash
    /\ raw[p + 1] = "u"
    /\ ~Escaped(raw, 1, p)

\* the four characters after \u are hexadecimal digits
HexAt(raw, p) ==
    p + 5 <= Len(raw) /\ \A k \in 2..5 : raw[p + k] \in HexChars

\* the characters between the quotes are well formed: every escape is one
\* json knows and no control character stands unescaped
ValidRaw(raw) ==
    \A p \in 1..Len(raw) :
        Escaped(raw, 1, p)
        \/ IF raw[p] = Backslash
           THEN /\ p < Len(raw)
                /\ \/ raw[p + 1] \in {Quote, Backslash, "/", "b", "f", "n", "r", "t"}
                   \/ raw[p + 1] = "u" /\ HexAt(raw, p)
           ELSE raw[p] \notin ControlChars

\* the character an escape sequence of two characters stands for
Unescape(c) ==
    IF c = "n" THEN Newline
    ELSE IF c = "t" THEN "\t"
    ELSE IF c = "r" THEN "\r"
    ELSE IF c = "b" THEN Latin1[9]
    ELSE IF c = "f" THEN "\f"
    ELSE c

\* the code the \uXXXX escape at p writes
CodeAt(raw, p) ==
    HexVal(raw[p + 2]) * 4096 + HexVal(raw[p + 3]) * 256
      + HexVal(raw[p + 4]) * 16 + HexVal(raw[p + 5])

HighSurrogateAt(raw, p) ==
    IsUEscape(raw, p) /\ CodeAt(raw, p) \in 55296..56319

LowSurrogateAt(raw, p) ==
    IsUEscape(raw, p) /\ CodeAt(raw, p) \in 56320..57343

\* the high surrogate at p is directly followed by a low one
SurrogatePairAt(raw, p) ==
    HighSurrogateAt(raw, p) /\ LowSurrogateAt(raw, p + 6)

\* the code of the character a pair of surrogates stands for
PairCode(high, low) == 65536 + (high - 55296) * 1024 + (low - 56320)

\* the character the \uXXXX escape at p stands for: a high surrogate
\* directly followed by a low one stands with it for one character
UnescapeU(raw, p) ==
    IF SurrogatePairAt(raw, p)
    THEN Chr(PairCode(CodeAt(raw, p), CodeAt(raw, p + 6)))
    ELSE Chr(CodeAt(raw, p))

\* the position p starts a character of the string: it is not the second
\* of an escape, not a digit of a \u escape, not the low half of a pair
StartsUnit(raw, p) ==
    /\ ~Escaped(raw, 1, p)
    /\ ~\E q \in (p - 5)..(p - 2) : IsUEscape(raw, q)
    /\ ~(raw[p] = Backslash /\ p > 6 /\ SurrogatePairAt(raw, p - 6))

\* the character that starts at position p
UnitChar(raw, p) ==
    IF raw[p] # Backslash THEN raw[p]
    ELSE IF raw[p + 1] = "u" THEN UnescapeU(raw, p)
    ELSE Unescape(raw[p + 1])

\* the k-th of the positions
KthUnit(units, k) == CHOOSE q \in units : Cardinality({r \in units : r <= q}) = k

UnescapeUnits(raw, units) ==
    [k \in 1..Cardinality(units) |-> UnitChar(raw, KthUnit(units, k))]

\* the characters the text between the quotes stands for
UnescapeAll(raw) ==
    IF \A p \in 1..Len(raw) : raw[p] # Backslash THEN raw
    ELSE UnescapeUnits(raw, {p \in 1..Len(raw) : StartsUnit(raw, p)})

\* the characters of a JSON string from position i (after its opening quote)
\* to its closing quote; a raw control character or an unknown escape fails
StringTo(s, i, end) ==
    IF end = 0 THEN ParseFail
    ELSE IF ~ValidRaw(SubSeq(s, i, end - 1)) THEN ParseFail
    ELSE Parsed(JStr(UnescapeAll(SubSeq(s, i, end - 1))), end + 1)

ScanString(s, i) == StringTo(s, i, StringEnd(s, i))

\* the first position at or after i that holds no digit
ScanDigits(s, i) ==
    IF \A j \in i..Len(s) : s[j] \in Digits THEN Len(s) + 1
    ELSE CHOOSE j \in i..Len(s) : s[j] \notin Digits /\ \A k \in i..(j - 1) : s[k] \in Digits

\* the position after the integer part that starts at b: a leading 0
\* stands alone
IntEnd(s, b) == IF s[b] = "0" THEN b + 1 ELSE ScanDigits(s, b)

\* the position after the fraction that may start at j: a point and at
\* least one digit
FracEnd(s, j) ==
    IF j + 1 <= Len(s) /\ s[j] = "." /\ s[j + 1] \in Digits
    THEN ScanDigits(s, j + 1) ELSE j

\* the position of the first digit of the exponent that may start at k (an
\* e, a sign if any, at least one digit), 0 if there is none
ExpDigitsAt(s, k) ==
    IF k + 1 <= Len(s) /\ s[k] \in {"e", "E"} /\ s[k + 1] \in Digits THEN k + 1
    ELSE IF k + 2 <= Len(s) /\ s[k] \in {"e", "E"} /\ s[k + 1] \in {"+", "-"}
            /\ s[k + 2] \in Digits THEN k + 2
    ELSE 0

ExpEnd(s, k) == IF ExpDigitsAt(s, k) = 0 THEN k ELSE ScanDigits(s, ExpDigitsAt(s, k))

\* the digits without their leading zeros (all of them if they are all zero)
DropLeadingZeros(d) ==
    IF \A i \in 1..Len(d) : d[i] = "0" THEN <<>>
    ELSE SubSeq(d, CHOOSE i \in 1..Len(d) : d[i] # "0" /\ \A j \in 1..(i - 1) : d[j] = "0", Len(d))

DropTrailingZeros(d) ==
    IF \A i \in 1..Len(d) : d[i] = "0" THEN <<>>
    ELSE SubSeq(d, 1, CHOOSE i \in 1..Len(d) : d[i] # "0" /\ \A j \in (i + 1)..Len(d) : d[j] = "0")

\* the exponent written with the digits d: one of more than nine digits
\* counts as 10^9 (the number is then inf or 0.0 whatever its digits)
ExpMagnitude(d) == IF Len(d) > 9 THEN 1000000000 ELSE NatOf(d)

\* the exponent written from k to m, 0 if none
ExpVal(s, k, m) ==
    IF ExpDigitsAt(s, k) = 0 THEN 0
    ELSE IF s[k + 1] = "-"
    THEN 0 - ExpMagnitude(DropLeadingZeros(SubSeq(s, ExpDigitsAt(s, k), m - 1)))
    ELSE ExpMagnitude(DropLeadingZeros(SubSeq(s, ExpDigitsAt(s, k), m - 1)))

-----------------------------------------------------------------------------
(* Floats.  float(literal) is the double nearest to the literal, ties to   *)
(* the even mantissa; repr(float) writes the shortest digits that are read *)
(* back as the same double, the nearest to it if there are several         *)
(* (CPython: PyOS_string_to_double and float_repr_style 'short').  Both    *)
(* are computed exactly, on natural numbers of any size: a natural number  *)
(* is the sequence of its decimal digits 0..9, without leading zeros (0 is *)
(* the empty sequence).                                                    *)

ZeroDigits(n) == [i \in 1..n |-> 0]

\* the digits without leading zeros
StripZeros(d) ==
    IF \A i \in 1..Len(d) : d[i] = 0 THEN <<>>
    ELSE SubSeq(d, CHOOSE i \in 1..Len(d) : d[i] # 0 /\ \A j \in 1..(i - 1) : d[j] = 0,
                Len(d))

\* 2 * d: a digit's carry comes from the digit after it alone
Twice(d) ==
    StripZeros([i \in 1..(Len(d) + 1) |->
                  (IF i = 1 THEN 0 ELSE (2 * d[i - 1]) % 10)
                    + (IF i <= Len(d) /\ d[i] >= 5 THEN 1 ELSE 0)])

\* d \div 2
HalfOf(d) ==
    StripZeros([i \in 1..Len(d) |->
                  (10 * (IF i > 1 THEN d[i - 1] % 2 ELSE 0) + d[i]) \div 2])

\* 5 * d
FiveTimes(d) == HalfOf(d \o <<0>>)

\* d * 2^k and d * 5^k (by halves of k)
RECURSIVE Doubled(_, _)
Doubled(d, k) ==
    IF d = <<>> \/ k = 0 THEN d
    ELSE IF k = 1 THEN Twice(d)
    ELSE Doubled(Doubled(d, k \div 2), k - k \div 2)

RECURSIVE TimesFive(_, _)
TimesFive(d, k) ==
    IF d = <<>> \/ k = 0 THEN d
    ELSE IF k = 1 THEN FiveTimes(d)
    ELSE TimesFive(TimesFive(d, k \div 2), k - k \div 2)

\* the first place from lo on at which two sequences of one length differ
FirstDifference(a, b, lo) ==
    CHOOSE i \in lo..Len(a) : a[i] # b[i] /\ \A j \in lo..(i - 1) : a[j] = b[j]

\* a < b
Less(a, b) ==
    \/ Len(a) < Len(b)
    \/ Len(a) = Len(b) /\ a # b /\ a[FirstDifference(a, b, 1)] < b[FirstDifference(a, b, 1)]

\* d + 1 and d - 1 (d > 0), p the last digit that is not 9 (not 0)
PlusOneAt(d, p) == SubSeq(d, 1, p - 1) \o <<d[p] + 1>> \o ZeroDigits(Len(d) - p)

PlusOne(d) ==
    IF \A i \in 1..Len(d) : d[i] = 9 THEN <<1>> \o ZeroDigits(Len(d))
    ELSE PlusOneAt(d, CHOOSE p \in 1..Len(d) :
                         d[p] # 9 /\ \A j \in (p + 1)..Len(d) : d[j] = 9)

MinusOneAt(d, p) ==
    StripZeros(SubSeq(d, 1, p - 1) \o <<d[p] - 1>> \o [i \in 1..(Len(d) - p) |-> 9])

MinusOne(d) ==
    MinusOneAt(d, CHOOSE p \in 1..Len(d) :
                     d[p] # 0 /\ \A j \in (p + 1)..Len(d) : d[j] = 0)

\* the borrow the digit i of a - b gives to the digits after it, a and b of
\* one length: the digits after i decide it at the first place they differ
Borrow(a, b, i) ==
    IF \A j \in (i + 1)..Len(a) : a[j] = b[j] THEN 0
    ELSE IF a[FirstDifference(a, b, i + 1)] < b[FirstDifference(a, b, i + 1)] THEN 1
    ELSE 0

SameLength(a, b) == ZeroDigits(Len(a) - Len(b)) \o b

Difference(a, b) ==
    StripZeros([i \in 1..Len(a) |-> (a[i] - b[i] - Borrow(a, b, i) + 10) % 10])

\* a - b, for a >= b
Minus(a, b) == Difference(a, SameLength(a, b))

\* the digits of 2^52 and 2^53
Pow52 == <<4,5,0,3,5,9,9,6,2,7,3,7,0,4,9,6>>
Pow53 == <<9,0,0,7,1,9,9,2,5,4,7,4,0,9,9,2>>

\* a double: inf, 0.0, or the finite m * 2^e, m a natural number
FloatInf == [kind |-> "inf"]
FloatZero == [kind |-> "zero"]
Finite(m, e) == [kind |-> "finite", m |-> m, e |-> e]

\* no double's rounding depends on more than the first 800 digits of a
\* literal and on whether a digit after them is not 0
KeptDigits == 800
Significant(d) ==
    IF Len(d) <= KeptDigits THEN d
    ELSE SubSeq(d, 1, KeptDigits)
           \o <<IF \E i \in (KeptDigits + 1)..Len(d) : d[i] # 0 THEN 1 ELSE 0>>

\* d[1].d[2]... * 10^x as a fraction of two natural numbers
Numerator(d, x) ==
    IF x - (Len(d) - 1) >= 0 THEN d \o ZeroDigits(x - (Len(d) - 1)) ELSE d

Denominator(d, x) ==
    <<1>> \o ZeroDigits(IF x - (Len(d) - 1) < 0 THEN (Len(d) - 1) - x ELSE 0)

\* about log2(10^x), within one of it
BinaryLog(x) == (x * 3321928) \div 1000000

\* the fraction a / b brought into [1, 2) by doublings: a / b * 2^k is the
\* number
RECURSIVE Normalised(_, _, _)
Normalised(a, b, k) ==
    IF ~Less(a, Twice(b)) THEN Normalised(a, Twice(b), k + 1)
    ELSE IF Less(a, b) THEN Normalised(Twice(a), b, k - 1)
    ELSE [a |-> a, b |-> b, k |-> k]

Scaled(n, d, k) ==
    Normalised(IF k < 0 THEN Doubled(n, 0 - k) ELSE n,
               IF k > 0 THEN Doubled(d, k) ELSE d, k)

\* one step of the long division by b: the remainder and the quotient are
\* doubled, and b is taken from the remainder if it holds it
DivBit(r, m, b) ==
    IF Less(r, b) THEN [r |-> r, m |-> m]
    ELSE [r |-> Minus(r, b), m |-> PlusOne(m)]

DivStep(st, b) == DivBit(Twice(st.r), Twice(st.m), b)

RECURSIVE DivSteps(_, _, _)
DivSteps(st, b, n) ==
    IF st.m = <<>> \/ n = 0 THEN st
    ELSE IF n = 1 THEN DivStep(st, b)
    ELSE DivSteps(DivSteps(st, b, n \div 2), b, n - n \div 2)

\* the quotient rounded to the nearest, a tie to the even one
RoundedQuotient(st, b) ==
    IF Less(b, Twice(st.r)) \/ (Twice(st.r) = b /\ st.m[Len(st.m)] % 2 = 1)
    THEN PlusOne(st.m) ELSE st.m

\* the double with the mantissa m of t + 1 bits (or 2^(t+1), after
\* rounding) at the binary exponent k
Rounded(m, k, t) ==
    IF t = 52 /\ m = Pow53
    THEN (IF k + 1 > 1023 THEN FloatInf ELSE Finite(Pow52, k + 1 - 52))
    ELSE IF k > 1023 THEN FloatInf
    ELSE Finite(m, k - t)

\* a / b in [1, 2) at the binary exponent k, rounded to 53 bits, or to the
\* fewer bits a subnormal has (its exponent stays -1074)
RoundedAt(n, t) ==
    IF t < -1 THEN FloatZero
    ELSE IF t = -1 THEN (IF Less(n.b, n.a) THEN Finite(<<1>>, -1074) ELSE FloatZero)
    ELSE Rounded(RoundedQuotient(DivSteps([r |-> Minus(n.a, n.b), m |-> <<1>>], n.b, t), n.b),
                 n.k, t)

MantissaBits(k) == IF k + 1074 < 52 THEN k + 1074 ELSE 52

RoundedFraction(n) == RoundedAt(n, MantissaBits(n.k))

\* float of d[1].d[2]... * 10^x, d without leading zeros and not empty
DoubleOfDigits(d, x) ==
    RoundedFraction(Scaled(Numerator(d, x), Denominator(d, x), BinaryLog(x)))

DoubleOf(d, x) ==
    IF x > 309 THEN FloatInf
    ELSE IF x < -325 THEN FloatZero
    ELSE DoubleOfDigits(Significant(d), x)

\* the digits of n * 2^e, and of n * 2^e * 10^(-e) if e < 0
Expanded(n, e) == IF e >= 0 THEN Doubled(n, e) ELSE TimesFive(n, 0 - e)

\* the number of decimals the digits of Expanded have
Decimals(e) == IF e >= 0 THEN 0 ELSE 0 - e

\* the doubles that are read as m * 2^e lie between the middle to the
\* double below it and the middle to the double above it, which are, in
\* quarters of a unit of m, 4m - 2 (4m - 1 where the double below is half
\* as far, at a power of two) and 4m + 2
Quarters(m) == Twice(Twice(m))
UpperMiddle(m) == PlusOne(PlusOne(Quarters(m)))
LowerMiddle(m, e) ==
    IF m = Pow52 /\ e > -1074 THEN MinusOne(Quarters(m))
    ELSE MinusOne(MinusOne(Quarters(m)))

\* c is read as the double: the middles themselves are read as the double
\* with the even mantissa
ReadBack(c, lo, hi, even) ==
    IF even THEN ~Less(c, lo) /\ ~Less(hi, c) ELSE Less(lo, c) /\ Less(c, hi)

\* v cut after k digits, and the next number of k digits
CutBelow(v, k) == SubSeq(v, 1, k) \o ZeroDigits(Len(v) - k)
CutAbove(v, k) == PlusOne(SubSeq(v, 1, k)) \o ZeroDigits(Len(v) - k)

\* v lies nearer to CutAbove than to CutBelow (on a tie, the even one)
NearerAbove(v, k) ==
    \/ v[k + 1] > 5
    \/ /\ v[k + 1] = 5
       /\ \/ \E i \in (k + 2)..Len(v) : v[i] # 0
          \/ v[k] % 2 = 1

\* the number of the fewest digits that is read back as v, from k digits on
RECURSIVE Shortest(_, _, _, _, _)
ShortestOf(v, lo, hi, even, k, first, second) ==
    IF ReadBack(first, lo, hi, even) THEN first
    ELSE IF ReadBack(second, lo, hi, even) THEN second
    ELSE Shortest(v, lo, hi, even, k + 1)

Shortest(v, lo, hi, even, k) ==
    IF k >= Len(v) THEN v
    ELSE IF NearerAbove(v, k)
    THEN ShortestOf(v, lo, hi, even, k, CutAbove(v, k), CutBelow(v, k))
    ELSE ShortestOf(v, lo, hi, even, k, CutBelow(v, k), CutAbove(v, k))

ShortestDigits(m, e) ==
    Shortest(Expanded(Quarters(m), e - 2), Expanded(LowerMiddle(m, e), e - 2),
             Expanded(UpperMiddle(m), e - 2), m[Len(m)] % 2 = 0, 1)

\* the digits as characters, and back
DigitChars(d) == [i \in 1..Len(d) |-> DigitSeq[d[i] + 1]]
DigitsOf(t) == [i \in 1..Len(t) |-> DigitVal(t[i])]

\* float.__repr__ with an exponent:  d.ddde+xx
SciText(d, x) ==
    <<d[1]>> \o (IF Len(d) > 1 THEN <<".">> \o Tail(d) ELSE <<>>)
      \o <<"e", IF x < 0 THEN "-" ELSE "+">>
      \o (IF x \in -9..9 THEN <<"0">> ELSE <<>>)
      \o NatStr(IF x < 0 THEN 0 - x ELSE x)

\* float.__repr__ without an exponent
FixedText(d, x) ==
    IF x >= 0
    THEN SubSeq(d \o Zeros(x + 1), 1, x + 1) \o <<".">>
           \o (IF Len(d) > x + 1 THEN SubSeq(d, x + 2, Len(d)) ELSE <<"0">>)
    ELSE <<"0", ".">> \o Zeros(0 - x - 1) \o d

\* float.__repr__ of the digits c at the scale of f decimals
ReprOfDigits(c, f) ==
    IF Len(c) - 1 - f < -4 \/ Len(c) - 1 - f >= 16
    THEN SciText(DropTrailingZeros(DigitChars(c)), Len(c) - 1 - f)
    ELSE FixedText(DropTrailingZeros(DigitChars(c)), Len(c) - 1 - f)

\* float.__repr__ of a double that is not negative
FloatRepr(x) ==
    IF x.kind = "inf" THEN T_inf
    ELSE IF x.kind = "zero" THEN <<"0", ".", "0">>
    ELSE ReprOfDigits(ShortestDigits(x.m, x.e), Decimals(x.e - 2))

\* the repr of the float whose digits without leading zeros are d, of
\* which lead were dropped, with n digits before the point and exponent e
FloatOf(d, lead, n, e) ==
    IF d = <<>> THEN <<"0", ".", "0">>
    ELSE FloatRepr(DoubleOf(DigitsOf(d), n - 1 + e - lead))

FloatDigits(digits, n, e) ==
    FloatOf(DropLeadingZeros(digits), Len(digits) - Len(DropLeadingZeros(digits)), n, e)

\* the repr of the float written with the integer part int, the fraction
\* frac and the exponent e
FloatText(neg, int, frac, e) ==
    (IF neg THEN <<"-">> ELSE <<>>) \o FloatDigits(int \o frac, Len(int), e)

\* the repr of the int written with these digits
IntText(neg, int) == IF neg /\ int # <<"0">> THEN <<"-">> \o int ELSE int

\* int(numstr) of more than sys.get_int_max_str_digits() digits raises
\* ValueError
MaxIntDigits == 4300

IntLimitMessage(n) ==
    <<"E","x","c","e","e","d","s"," ","t","h","e"," ","l","i","m","i","t"," ","(","4","3","0","0"," ","d","i","g","i","t","s",")"," ","f","o","r"," ","i","n","t","e","g","e","r"," ","s","t","r","i","n","g"," ","c","o","n","v","e","r","s","i","o","n",":"," ","v","a","l","u","e"," ","h","a","s"," ">>
    \o NatStr(n)
    \o <<" ","d","i","g","i","t","s",";"," ","u","s","e"," ","s","y","s",".","s","e","t","_","i","n","t","_","m","a","x","_","s","t","r","_","d","i","g","i","t","s","(",")"," ","t","o"," ","i","n","c","r","e","a","s","e"," ","t","h","e"," ","l","i","m","i","t">>

\* the number whose integer part is s[b..j-1], whose fraction ends before
\* k and whose exponent ends before m
NumberAt(s, neg, b, j, k, m) ==
    IF m = j
    THEN (IF j - b > MaxIntDigits THEN ParseRaise(IntLimitMessage(j - b))
          ELSE Parsed(JNum(IntText(neg, SubSeq(s, b, j - 1))), m))
    ELSE Parsed(JNum(FloatText(neg, SubSeq(s, b, j - 1), SubSeq(s, j + 1, k - 1),
                               ExpVal(s, k, m))), m)

ScanExponent(s, neg, b, j, k) == NumberAt(s, neg, b, j, k, ExpEnd(s, k))
ScanFraction(s, neg, b, j) == ScanExponent(s, neg, b, j, FracEnd(s, j))
ScanNumber(s, neg, b) == ScanFraction(s, neg, b, IntEnd(s, b))

\* the number after the sign, if there is one
SignedNumber(s, neg, b) ==
    IF b <= Len(s) /\ s[b] \in Digits THEN ScanNumber(s, neg, b)
    ELSE IF neg /\ HasAt(s, b, L_Infinity) THEN Parsed(JNum(T_neginf), b + 8)
    ELSE ParseFail

\* a number at position i, which holds a digit or a minus sign:
\*   -?(0|[1-9][0-9]*)(\.[0-9]+)?([eE][-+]?[0-9]+)?   or  -Infinity
ParseNumber(s, i) ==
    IF s[i] = "-" THEN SignedNumber(s, TRUE, i + 1) ELSE SignedNumber(s, FALSE, i)

\* the word at position i stands for the value
ParseWord(s, i, word, value) ==
    IF HasAt(s, i, word) THEN Parsed(value, i + Len(word)) ELSE ParseFail

\* a value that is not an object or an array, at position i, told by its
\* first character
ParseScalar(s, i) ==
    CASE s[i] = Quote -> ScanString(s, i + 1)
      [] s[i] \in Digits \cup {"-"} -> ParseNumber(s, i)
      [] s[i] = "N" -> ParseWord(s, i, L_NaN, JNum(T_nan))
      [] s[i] = "I" -> ParseWord(s, i, L_Infinity, JNum(T_inf))
      [] s[i] = "t" -> ParseWord(s, i, L_true, JBool(TRUE))
      [] s[i] = "f" -> ParseWord(s, i, L_false, JBool(FALSE))
      [] s[i] = "n" -> ParseWord(s, i, L_null, JNull)
      [] OTHER -> ParseFail

\* The scanner reads an object or an array by a call of its own for every
\* value in it.  The calls that are open are kept as a stack of frames: the
\* kind of the container, the members or items read so far, and the key
\* whose value is being read.  A state of the scan is what it does next
\* (read a value, read a key, go on after the value val), at which
\* position, under which frames; or its end: the document's value, a
\* failure, or an exception with the message val.
Frame(kind, acc, key) == [kind |-> kind, acc |-> acc, key |-> key]
ScanState(mode, pos, stack, val) == [mode |-> mode, pos |-> pos, stack |-> stack, val |-> val]
ScanFailed == ScanState("fail", 0, <<>>, <<>>)
ScanRaised(message) == ScanState("raise", 0, <<>>, message)
ScanEnded == {"done", "fail", "raise"}

\* Py_EnterRecursiveCall in the scanner fails once the open containers are
\* more than the recursion limit (1000) leaves to json.loads called from a
\* function that the top level of a script calls
MaxNesting == 994

RecursionMessage(kind) ==
    <<"m","a","x","i","m","u","m"," ","r","e","c","u","r","s","i","o","n"," ","d","e","p","t","h"," ","e","x","c","e","e","d","e","d"," ","w","h","i","l","e"," ","d","e","c","o","d","i","n","g"," ","a"," ","J","S","O","N"," ">>
    \o (IF kind = "obj" THEN <<"o","b","j","e","c","t">> ELSE <<"a","r","r","a","y">>)
    \o <<" ","f","r","o","m"," ","a"," ","u","n","i","c","o","d","e"," ","s","t","r","i","n","g">>

Container(kind, content) == IF kind = "obj" THEN JObj(content) ELSE JArr(content)
Closing(kind) == IF kind = "obj" THEN "}" ELSE "]"
\* what comes first in a container: a key in an object, a value in an array
FirstIn(kind) == IF kind = "obj" THEN "key" ELSE "value"

\* an object or an array opens, j the position after the bracket and the
\* whitespace: it is empty, or its first key or item stands at j
OpenContainer(s, st, kind, j) ==
    IF Len(st.stack) >= MaxNesting THEN ScanRaised(RecursionMessage(kind))
    ELSE IF j <= Len(s) /\ s[j] = Closing(kind)
    THEN ScanState("after", j + 1, st.stack, Container(kind, <<>>))
    ELSE ScanState(FirstIn(kind), j, Append(st.stack, Frame(kind, <<>>, <<>>)), <<>>)

ScalarEnd(st, r) ==
    IF r.ok THEN ScanState("after", r.pos, st.stack, r.val)
    ELSE IF r.raised # <<>> THEN ScanRaised(r.raised)
    ELSE ScanFailed

\* one JSON value at the position of the state, told by its first character
ParseValue(s, st) ==
    IF st.pos > Len(s) THEN ScanFailed
    ELSE IF s[st.pos] = "{" THEN OpenContainer(s, st, "obj", SkipWs(s, st.pos + 1))
    ELSE IF s[st.pos] = "[" THEN OpenContainer(s, st, "arr", SkipWs(s, st.pos + 1))
    ELSE ScalarEnd(st, ParseScalar(s, st.pos))

\* the stack with its last frame replaced
WithTop(stack, frame) == SubSeq(stack, 1, Len(stack) - 1) \o <<frame>>
Top(stack) == stack[Len(stack)]

\* after the key, at position c: a colon, then the value
MemberValue(s, st, key, c) ==
    IF c > Len(s) \/ s[c] # ":" THEN ScanFailed
    ELSE ScanState("value", SkipWs(s, c + 1),
                   WithTop(st.stack, Frame("obj", Top(st.stack).acc, key.val[2])), <<>>)

MemberColon(s, st, key) ==
    IF ~key.ok THEN ScanFailed ELSE MemberValue(s, st, key, SkipWs(s, key.pos))

\* a member of an object at the position of the state: a key, a colon, then
\* the value
ParseMembers(s, st) ==
    IF st.pos > Len(s) \/ s[st.pos] # Quote THEN ScanFailed
    ELSE MemberColon(s, st, ScanString(s, st.pos + 1))

\* the members or items of the frame with the value read for it: a key
\* already present keeps its place
Attached(frame, val) ==
    IF frame.kind = "obj" THEN Put(frame.acc, frame.key, val) ELSE Append(frame.acc, val)

\* after a member or an item, at position e: the closing bracket, with which
\* the container is the value read, or a comma and the next one
ItemNext(s, st, frame, e, got) ==
    IF e > Len(s) THEN ScanFailed
    ELSE IF s[e] = Closing(frame.kind)
    THEN ScanState("after", e + 1, SubSeq(st.stack, 1, Len(st.stack) - 1),
                   Container(frame.kind, got))
    ELSE IF s[e] = ","
    THEN ScanState(FirstIn(frame.kind), SkipWs(s, e + 1),
                   WithTop(st.stack, Frame(frame.kind, got, <<>>)), <<>>)
    ELSE ScanFailed

\* after a value: it is the document, or it goes into the container that
\* is open
ParseItems(s, st) ==
    IF st.stack = <<>> THEN ScanState("done", st.pos, <<>>, st.val)
    ELSE ItemNext(s, st, Top(st.stack), SkipWs(s, st.pos),
                  Attached(Top(st.stack), st.val))

ScanStep(s, st) ==
    IF st.mode = "value" THEN ParseValue(s, st)
    ELSE IF st.mode = "key" THEN ParseMembers(s, st)
    ELSE ParseItems(s, st)

\* at most n steps of the scan (by halves of n)
RECURSIVE ScanSteps(_, _, _)
ScanSteps(s, st, n) ==
    IF st.mode \in ScanEnded \/ n = 0 THEN st
    ELSE IF n = 1 THEN ScanStep(s, st)
    ELSE ScanSteps(s, ScanSteps(s, st, n \div 2), n - n \div 2)

\* the scan of a document from its first character that is not whitespace:
\* every step but the last reads a character, at least
scan_once(s) == ScanSteps(s, ScanState("value", SkipWs(s, 1), <<>>, <<>>), Len(s) + 1)

\* the parsed value, if nothing but whitespace follows it
WholeDocument(s, st) ==
    IF st.mode = "raise" THEN ParseRaise(st.val)
    ELSE IF st.mode = "done" /\ SkipWs(s, st.pos) = Len(s) + 1 THEN Parsed(st.val, st.pos)
    ELSE ParseFail

\* json.loads(s): the whole text is one document, whitespace around it
\* allowed; anything else is a JSONDecodeError, but for an integer of too
\* many digits (ValueError) and containers nested too deep (RecursionError)
Loads(s) == WholeDocument(s, scan_once(s))

-----------------------------------------------------------------------------
(* The response decoder, process_agent_response (src/frontend_app.py).     *)
(* A response is what agent_response["response"].read() gives: bytes, or   *)
(* a str, or None (which has no len()), or an exception.  A byte sequence   *)
(* that is not UTF-8 holds the element BadByte.                            *)

BadByte == "<0xff>"

K_error  == <<"e","r","r","o","r">>
K_agents == <<"a","g","e","n","t","s">>

\* the fixed message of the empty result and the prefix of the message of
\* a processing error (Japanese literals in the source, one element each)
EmptyMessage == <<"(the response was empty)">>
ProcessingErrorPrefix == <<"(an error occurred while processing the response): ">>

\* str.strip(): the text between its first and its last character that is
\* not whitespace
LStrip(s) ==
    LET kept == {i \in 1..Len(s) : s[i] \notin PyWhitespace}
    IN  IF kept = {} THEN <<>>
        ELSE SubSeq(s, CHOOSE i \in kept : \A j \in kept : i <= j, Len(s))

RStrip(s) ==
    LET kept == {i \in 1..Len(s) : s[i] \notin PyWhitespace}
    IN  IF kept = {} THEN <<>>
        ELSE SubSeq(s, 1, CHOOSE i \in kept : \A j \in kept : i >= j)

Strip(s) == RStrip(LStrip(s))

\* str.startswith(prefix)
StartsWith(s, prefix) ==
    Len(s) >= Len(prefix) /\ SubSeq(s, 1, Len(prefix)) = prefix

\* str.split("\n"): the pieces between consecutive newlines, one more than
\* there are newlines
SplitLines(s) ==
    LET breaks == {i \in 1..Len(s) : s[i] = Newline}
        Break(k) == IF k = 0 THEN 0
                    ELSE IF k > Cardinality(breaks) THEN Len(s) + 1
                    ELSE CHOOSE i \in breaks :
                            Cardinality({j \in breaks : j <= i}) = k
    IN  [k \in 1..(Cardinality(breaks) + 1) |->
            SubSeq(s, Break(k - 1) + 1, Break(k) - 1)]

DataPrefix == <<"d","a","t","a",":",Space>>

NoResult == [type |-> "none"]
ErrorResult(message) == [type |-> "error", message |-> message]
StructuredResult(data) == [type |-> "structured", data |-> data]
TextResult(message) == [type |-> "text", message |-> message]
EmptyResult == [type |-> "empty", message |-> JStr(EmptyMessage)]

\* strategy 1 with its first two tests in the other order: a document that
\* has the key agents is structured before its error key is looked at
ClassifyDocumentAgentsFirst(data) ==
    IF data[1] = "obj" /\ HasKey(data, K_agents) THEN StructuredResult(data)
    ELSE IF data[1] = "obj" /\ HasKey(data, K_error)
    THEN ErrorResult(Get(data, K_error))
    ELSE IF data[1] = "obj" \/ data[1] = "arr" THEN StructuredResult(data)
    ELSE IF data[1] = "str" THEN TextResult(data)
    ELSE NoResult

\* strategy 1, the tests on the parsed whole document, in the source's order:
\*   dict with "error" -> error;  dict with "agents" -> structured;
\*   dict or list -> structured;  str -> text;  anything else falls through
ClassifyDocument(data) ==
    IF data[1] = "obj" /\ HasKey(data, K_error)
    THEN ErrorResult(Get(data, K_error))
    ELSE IF data[1] = "obj" /\ HasKey(data, K_agents) THEN StructuredResult(data)
    ELSE IF data[1] = "obj" \/ data[1] = "arr" THEN StructuredResult(data)
    ELSE IF data[1] = "str" THEN TextResult(data)
    ELSE NoResult

\* strategy 2, the tests on one parsed line, in the source's order:
\*   dict with "error" -> error;  dict with "agents" -> structured;
\*   str -> text;  anything else goes on to the next line
ClassifyLine(data) ==
    IF data[1] = "obj" /\ HasKey(data, K_error)
    THEN ErrorResult(Get(data, K_error))
    ELSE IF data[1] = "obj" /\ HasKey(data, K_agents) THEN StructuredResult(data)
    ELSE IF data[1] = "str" THEN TextResult(data)
    ELSE NoResult

\* the text of a line that the decoder hands to json.loads: the line
\* stripped, without its "data: " prefix
LineBody(line) ==
    IF StartsWith(Strip(line), DataPrefix)
    THEN SubSeq(Strip(line), 7, Len(Strip(line)))
    ELSE Strip(line)

\* json.loads of a line raised another exception than JSONDecodeError
LineRaised == [type |-> "raised"]

\* lines 126-151: the line is parsed and classified; one that does not
\* parse is passed over
ParsedLine(data) ==
    IF data.ok THEN ClassifyLine(data.val)
    ELSE IF data.raised # <<>> THEN LineRaised
    ELSE NoResult

\* lines 116-151 on one line: a blank line is passed over
LineOutcome(line) ==
    IF Strip(line) = <<>> THEN NoResult ELSE ParsedLine(Loads(LineBody(line)))

LineOutcomes(lines) ==
    SubSeq([i \in 1..Len(lines) |-> LineOutcome(lines[i])], 1, Len(lines))

\* the outcome of the first line that is not passed over
FirstOutcome(outcomes) ==
    IF \A i \in 1..Len(outcomes) : outcomes[i] = NoResult THEN NoResult
    ELSE outcomes[CHOOSE i \in 1..Len(outcomes) :
                     outcomes[i] # NoResult /\ \A j \in 1..(i - 1) : outcomes[j] = NoResult]

\* strategy 2, the loop over response_str.split("\n"): the first line that
\* gives a result returns it; an exception that is not a JSONDecodeError
\* ends the loop (line 152)
LoopEnd(outcome) == IF outcome = LineRaised THEN NoResult ELSE outcome

ScanLines(lines) == LoopEnd(FirstOutcome(LineOutcomes(lines)))

\* lines 77-158 on the response text that is not empty: strategy 1 on the
\* whole text (an exception of json.loads that is not a JSONDecodeError
\* goes to line 161), then strategy 2, then strategy 3
DecodeText(response_str, whole) ==
    IF ~whole.ok /\ whole.raised # <<>>
    THEN ErrorResult(JStr(ProcessingErrorPrefix \o whole.raised))
    ELSE LET first == IF whole.ok THEN ClassifyDocument(whole.val) ELSE NoResult
             second == ScanLines(SplitLines(response_str))
         IN  IF first # NoResult THEN first
             ELSE IF second # NoResult THEN second
             ELSE TextResult(JStr(response_str))

\* process_agent_response
process_agent_response(resp) ==
    IF resp.kind = "raises"
    THEN ErrorResult(JStr(ProcessingErrorPrefix \o resp.data))
    ELSE IF resp.kind = "none"
    THEN ErrorResult(JStr(ProcessingErrorPrefix \o <<"o","b","j","e","c","t"," ","o","f"," ","t","y","p","e"," ","'","N","o","n","e","T","y","p","e","'"," ","h","a","s"," ","n","o"," ","l","e","n","(",")">>))
    ELSE IF resp.kind = "bytes" /\ \E i \in 1..Len(resp.data) : resp.data[i] = BadByte
    THEN ErrorResult(JStr(ProcessingErrorPrefix \o <<"UnicodeDecodeError">>))
    ELSE IF resp.data = <<>> THEN EmptyResult
    ELSE DecodeText(resp.data, Loads(resp.data))

-----------------------------------------------------------------------------
(* The gateway's tool listing.  A remote serves its pages in order; the    *)
(* cursor it returns with page i is the opaque token of page i+1, and it   *)
(* returns no cursor (None) with its last page.  An endless remote returns *)
(* with its last page the token of that same page again, forever.          *)

None == 0
TokenBase == 100
TokenOf(i) == TokenBase + i
PageOf(token) == IF token = None THEN 1 ELSE token - TokenBase

\* client.list_tools_sync(pagination_token=token): the page and its cursor
list_tools_sync(r, token) ==
    LET i == PageOf(token)
    IN  [tools |-> r.pages[i],
         pagination_token |->
            IF i < Len(r.pages) THEN TokenOf(i + 1)
            ELSE IF r.endless THEN TokenOf(i)
            ELSE None]

\* the locals of get_full_tools_list before its loop:
\*   tools = [];  pagination_token = None
\* calls, sent and answered record the listing calls made: how many, the
\* cursor the last one passed, and the cursor the one before it returned.
FetchStart ==
    [state |-> "looping", tools |-> <<>>, pagination_token |-> None,
     calls |-> 0, sent |-> None, answered |-> None, last |-> None]

FetchIdle == [FetchStart EXCEPT !.state = "idle"]

\* one iteration of the loop, as a bug would write it: the cursor is never
\* advanced, every call asks for the first page
LoopIterationNoAdvance(f, r) ==
    LET tmp_tools == list_tools_sync(r, None)
    IN  [f EXCEPT !.tools = f.tools \o tmp_tools.tools,
                  !.calls = f.calls + 1,
                  !.sent = None,
                  !.answered = f.last,
                  !.last = tmp_tools.pagination_token,
                  !.state = IF tmp_tools.pagination_token = None
                            THEN "returned" ELSE "looping"]

\* one iteration of  while True:  in get_full_tools_list
\*   tmp_tools = client.list_tools_sync(pagination_token=pagination_token)
\*   tools.extend(tmp_tools)
\*   if getattr(tmp_tools, "pagination_token", None) is None: break
\*   pagination_token = tmp_tools.pagination_token
\* and, after the break,  return tools
LoopIteration(f, r) ==
    LET tmp_tools == list_tools_sync(r, f.pagination_token)
    IN  [f EXCEPT !.tools = f.tools \o tmp_tools.tools,
                  !.calls = f.calls + 1,
                  !.sent = f.pagination_token,
                  !.answered = f.last,
                  !.last = tmp_tools.pagination_token,
                  !.pagination_token =
                        IF tmp_tools.pagination_token = None
                        THEN f.pagination_token
                        ELSE tmp_tools.pagination_token,
                  !.state = IF tmp_tools.pagination_token = None
                            THEN "returned" ELSE "looping"]

\* get_full_tools_list, one listing call at a time, followed for at most
\* limit calls
get_full_tools_list(limit) ==
    /\ fetch.state = "looping"
    /\ fetch.calls < limit
    /\ fetch' = LoopIteration(fetch, remote)

-----------------------------------------------------------------------------
(* Python values in the request: the JSON values, with None as JNull *)

K_input     == <<"i","n","p","u","t">>
K_prompt    == <<"p","r","o","m","p","t">>
K_sessionId == <<"s","e","s","s","i","o","n","I","d">>
K_session_id == <<"s","e","s","s","i","o","n","_","i","d">>
K_type      == <<"t","y","p","e">>
K_status    == <<"s","t","a","t","u","s">>
K_full_text == <<"f","u","l","l","_","t","e","x","t">>
K_name      == <<"n","a","m","e">>
K_messages  == <<"m","e","s","s","a","g","e","s">>
K_content   == <<"c","o","n","t","e","n","t">>
K_metadata  == <<"m","e","t","a","d","a","t","a">>
K_mcp_tools_used == <<"m","c","p","_","t","o","o","l","s","_","u","s","e","d">>
K_total_nodes == <<"t","o","t","a","l","_","n","o","d","e","s">>
K_completed_nodes == <<"c","o","m","p","l","e","t","e","d","_","n","o","d","e","s">>
K_failed_nodes == <<"f","a","i","l","e","d","_","n","o","d","e","s">>
K_execution_time_ms == <<"e","x","e","c","u","t","i","o","n","_","t","i","m","e","_","m","s">>
K_tokens_used == <<"t","o","k","e","n","s","_","u","s","e","d">>
K_total_execution_time_ms == <<"t","o","t","a","l","_","e","x","e","c","u","t","i","o","n","_","t","i","m","e","_","m","s">>
K_total_tokens == <<"t","o","t","a","l","_","t","o","k","e","n","s">>

\* Python's truth test:  not value  (a float nan is true)
Falsy(value) ==
    \/ value[1] = "null"
    \/ value[1] = "bool" /\ ~value[2]
    \/ value[1] = "num" /\ value[2] \in {<<"0">>, <<"0", ".", "0">>, <<"-", "0", ".", "0">>}
    \/ value[1] \in {"str", "arr", "obj", "set"} /\ value[2] = <<>>

\* dict.get(key, default)
DictGet(obj, key, default) == IF HasKey(obj, key) THEN Get(obj, key) ELSE default

\* the characters str.isprintable() does not hold for
UnprintableRanges ==
    << <<0, 31>>, <<127, 160>>, <<173, 173>>, <<888, 889>>, <<896, 899>>, <<907, 907>>,
       <<909, 909>>, <<930, 930>>, <<1328, 1328>>, <<1367, 1368>>, <<1419, 1420>>, <<1424, 1424>>,
       <<1480, 1487>>, <<1515, 1518>>, <<1525, 1541>>, <<1564, 1564>>, <<1757, 1757>>, <<1806, 1807>>,
       <<1867, 1868>>, <<1970, 1983>>, <<2043, 2044>>, <<2094, 2095>>, <<2111, 2111>>, <<2140, 2141>>,
       <<2143, 2143>>, <<2155, 2159>>, <<2191, 2199>>, <<2274, 2274>>, <<2436, 2436>>, <<2445, 2446>>,
       <<2449, 2450>>, <<2473, 2473>>, <<2481, 2481>>, <<2483, 2485>>, <<2490, 2491>>, <<2501, 2502>>,
       <<2505, 2506>>, <<2511, 2518>>, <<2520, 2523>>, <<2526, 2526>>, <<2532, 2533>>, <<2559, 2560>>,
       <<2564, 2564>>, <<2571, 2574>>, <<2577, 2578>>, <<2601, 2601>>, <<2609, 2609>>, <<2612, 2612>>,
       <<2615, 2615>>, <<2618, 2619>>, <<2621, 2621>>, <<2627, 2630>>, <<2633, 2634>>, <<2638, 2640>>,
       <<2642, 2648>>, <<2653, 2653>>, <<2655, 2661>>, <<2679, 2688>>, <<2692, 2692>>, <<2702, 2702>>,
       <<2706, 2706>>, <<2729, 2729>>, <<2737, 2737>>, <<2740, 2740>>, <<2746, 2747>>, <<2758, 2758>>,
       <<2762, 2762>>, <<2766, 2767>>, <<2769, 2783>>, <<2788, 2789>>, <<2802, 2808>>, <<2816, 2816>>,
       <<2820, 2820>>, <<2829, 2830>>, <<2833, 2834>>, <<2857, 2857>>, <<2865, 2865>>, <<2868, 2868>>,
       <<2874, 2875>>, <<2885, 2886>>, <<2889, 2890>>, <<2894, 2900>>, <<2904, 2907>>, <<2910, 2910>>,
       <<2916, 2917>>, <<2936, 2945>>, <<2948, 2948>>, <<2955, 2957>>, <<2961, 2961>>, <<2966, 2968>>,
       <<2971, 2971>>, <<2973, 2973>>, <<2976, 2978>>, <<2981, 2983>>, <<2987, 2989>>, <<3002, 3005>>,
       <<3011, 3013>>, <<3017, 3017>>, <<3022, 3023>>, <<3025, 3030>>, <<3032, 3045>>, <<3067, 3071>>,
       <<3085, 3085>>, <<3089, 3089>>, <<3113, 3113>>, <<3130, 3131>>, <<3141, 3141>>, <<3145, 3145>>,
       <<3150, 3156>>, <<3159, 3159>>, <<3163, 3164>>, <<3166, 3167>>, <<3172, 3173>>, <<3184, 3190>>,
       <<3213, 3213>>, <<3217, 3217>>, <<3241, 3241>>, <<3252, 3252>>, <<3258, 3259>>, <<3269, 3269>>,
       <<3273, 3273>>, <<3278, 3284>>, <<3287, 3292>>, <<3295, 3295>>, <<3300, 3301>>, <<3312, 3312>>,
       <<3315, 3327>>, <<3341, 3341>>, <<3345, 3345>>, <<3397, 3397>>, <<3401, 3401>>, <<3408, 3411>>,
       <<3428, 3429>>, <<3456, 3456>>, <<3460, 3460>>, <<3479, 3481>>, <<3506, 3506>>, <<3516, 3516>>,
       <<3518, 3519>>, <<3527, 3529>>, <<3531, 3534>>, <<3541, 3541>>, <<3543, 3543>>, <<3552, 3557>>,
       <<3568, 3569>>, <<3573, 3584>>, <<3643, 3646>>, <<3676, 3712>>, <<3715, 3715>>, <<3717, 3717>>,
       <<3723, 3723>>, <<3748, 3748>>, <<3750, 3750>>, <<3774, 3775>>, <<3781, 3781>>, <<3783, 3783>>,
       <<3790, 3791>>, <<3802, 3803>>, <<3808, 3839>>, <<3912, 3912>>, <<3949, 3952>>, <<3992, 3992>>,
       <<4029, 4029>>, <<4045, 4045>>, <<4059, 4095>>, <<4294, 4294>>, <<4296, 4300>>, <<4302, 4303>>,
       <<4681, 4681>>, <<4686, 4687>>, <<4695, 4695>>, <<4697, 4697>>, <<4702, 4703>>, <<4745, 4745>>,
       <<4750, 4751>>, <<4785, 4785>>, <<4790, 4791>>, <<4799, 4799>>, <<4801, 4801>>, <<4806, 4807>>,
       <<4823, 4823>>, <<4881, 4881>>, <<4886, 4887>>, <<4955, 4956>>, <<4989, 4991>>, <<5018, 5023>>,
       <<5110, 5111>>, <<5118, 5119>>, <<5760, 5760>>, <<5789, 5791>>, <<5881, 5887>>, <<5910, 5918>>,
       <<5943, 5951>>, <<5972, 5983>>, <<5997, 5997>>, <<6001, 6001>>, <<6004, 6015>>, <<6110, 6111>>,
       <<6122, 6127>>, <<6138, 6143>>, <<6158, 6158>>, <<6170, 6175>>, <<6265, 6271>>, <<6315, 6319>>,
       <<6390, 6399>>, <<6431, 6431>>, <<6444, 6447>>, <<6460, 6463>>, <<6465, 6467>>, <<6510, 6511>>,
       <<6517, 6527>>, <<6572, 6575>>, <<6602, 6607>>, <<6619, 6621>>, <<6684, 6685>>, <<6751, 6751>>,
       <<6781, 6782>>, <<6794, 6799>>, <<6810, 6815>>, <<6830, 6831>>, <<6863, 6911>>, <<6989, 6991>>,
       <<7039, 7039>>, <<7156, 7163>>, <<7224, 7226>>, <<7242, 7244>>, <<7305, 7311>>, <<7355, 7356>>,
       <<7368, 7375>>, <<7419, 7423>>, <<7958, 7959>>, <<7966, 7967>>, <<8006, 8007>>, <<8014, 8015>>,
       <<8024, 8024>>, <<8026, 8026>>, <<8028, 8028>>, <<8030, 8030>>, <<8062, 8063>>, <<8117, 8117>>,
       <<8133, 8133>>, <<8148, 8149>>, <<8156, 8156>>, <<8176, 8177>>, <<8181, 8181>>, <<8191, 8207>>,
       <<8232, 8239>>, <<8287, 8303>>, <<8306, 8307>>, <<8335, 8335>>, <<8349, 8351>>, <<8385, 8399>>,
       <<8433, 8447>>, <<8588, 8591>>, <<9255, 9279>>, <<9291, 9311>>, <<11124, 11125>>, <<11158, 11158>>,
       <<11508, 11512>>, <<11558, 11558>>, <<11560, 11564>>, <<11566, 11567>>, <<11624, 11630>>, <<11633, 11646>>,
       <<11671, 11679>>, <<11687, 11687>>, <<11695, 11695>>, <<11703, 11703>>, <<11711, 11711>>, <<11719, 11719>>,
       <<11727, 11727>>, <<11735, 11735>>, <<11743, 11743>>, <<11870, 11903>>, <<11930, 11930>>, <<12020, 12031>>,
       <<12246, 12271>>, <<12284, 12288>>, <<12352, 12352>>, <<12439, 12440>>, <<12544, 12548>>, <<12592, 12592>>,
       <<12687, 12687>>, <<12772, 12783>>, <<12831, 12831>>, <<42125, 42127>>, <<42183, 42191>>, <<42540, 42559>>,
       <<42744, 42751>>, <<42955, 42959>>, <<42962, 42962>>, <<42964, 42964>>, <<42970, 42993>>, <<43053, 43055>>,
       <<43066, 43071>>, <<43128, 43135>>, <<43206, 43213>>, <<43226, 43231>>, <<43348, 43358>>, <<43389, 43391>>,
       <<43470, 43470>>, <<43482, 43485>>, <<43519, 43519>>, <<43575, 43583>>, <<43598, 43599>>, <<43610, 43611>>,
       <<43715, 43738>>, <<43767, 43776>>, <<43783, 43784>>, <<43791, 43792>>, <<43799, 43807>>, <<43815, 43815>>,
       <<43823, 43823>>, <<43884, 43887>>, <<44014, 44015>>, <<44026, 44031>>, <<55204, 55215>>, <<55239, 55242>>,
       <<55292, 63743>>, <<64110, 64111>>, <<64218, 64255>>, <<64263, 64274>>, <<64280, 64284>>, <<64311, 64311>>,
       <<64317, 64317>>, <<64319, 64319>>, <<64322, 64322>>, <<64325, 64325>>, <<64451, 64466>>, <<64912, 64913>>,
       <<64968, 64974>>, <<64976, 65007>>, <<65050, 65055>>, <<65107, 65107>>, <<65127, 65127>>, <<65132, 65135>>,
       <<65141, 65141>>, <<65277, 65280>>, <<65471, 65473>>, <<65480, 65481>>, <<65488, 65489>>, <<65496, 65497>>,
       <<65501, 65503>>, <<65511, 65511>>, <<65519, 65531>>, <<65534, 65535>>, <<65548, 65548>>, <<65575, 65575>>,
       <<65595, 65595>>, <<65598, 65598>>, <<65614, 65615>>, <<65630, 65663>>, <<65787, 65791>>, <<65795, 65798>>,
       <<65844, 65846>>, <<65935, 65935>>, <<65949, 65951>>, <<65953, 65999>>, <<66046, 66175>>, <<66205, 66207>>,
       <<66257, 66271>>, <<66300, 66303>>, <<66340, 66348>>, <<66379, 66383>>, <<66427, 66431>>, <<66462, 66462>>,
       <<66500, 66503>>, <<66518, 66559>>, <<66718, 66719>>, <<66730, 66735>>, <<66772, 66775>>, <<66812, 66815>>,
       <<66856, 66863>>, <<66916, 66926>>, <<66939, 66939>>, <<66955, 66955>>, <<66963, 66963>>, <<66966, 66966>>,
       <<66978, 66978>>, <<66994, 66994>>, <<67002, 67002>>, <<67005, 67071>>, <<67383, 67391>>, <<67414, 67423>>,
       <<67432, 67455>>, <<67462, 67462>>, <<67505, 67505>>, <<67515, 67583>>, <<67590, 67591>>, <<67593, 67593>>,
       <<67638, 67638>>, <<67641, 67643>>, <<67645, 67646>>, <<67670, 67670>>, <<67743, 67750>>, <<67760, 67807>>,
       <<67827, 67827>>, <<67830, 67834>>, <<67868, 67870>>, <<67898, 67902>>, <<67904, 67967>>, <<68024, 68027>>,
       <<68048, 68049>>, <<68100, 68100>>, <<68103, 68107>>, <<68116, 68116>>, <<68120, 68120>>, <<68150, 68151>>,
       <<68155, 68158>>, <<68169, 68175>>, <<68185, 68191>>, <<68256, 68287>>, <<68327, 68330>>, <<68343, 68351>>,
       <<68406, 68408>>, <<68438, 68439>>, <<68467, 68471>>, <<68498, 68504>>, <<68509, 68520>>, <<68528, 68607>>,
       <<68681, 68735>>, <<68787, 68799>>, <<68851, 68857>>, <<68904, 68911>>, <<68922, 69215>>, <<69247, 69247>>,
       <<69290, 69290>>, <<69294, 69295>>, <<69298, 69375>>, <<69416, 69423>>, <<69466, 69487>>, <<69514, 69551>>,
       <<69580, 69599>>, <<69623, 69631>>, <<69710, 69713>>, <<69750, 69758>>, <<69821, 69821>>, <<69827, 69839>>,
       <<69865, 69871>>, <<69882, 69887>>, <<69941, 69941>>, <<69960, 69967>>, <<70007, 70015>>, <<70112, 70112>>,
       <<70133, 70143>>, <<70162, 70162>>, <<70207, 70271>>, <<70279, 70279>>, <<70281, 70281>>, <<70286, 70286>>,
       <<70302, 70302>>, <<70314, 70319>>, <<70379, 70383>>, <<70394, 70399>>, <<70404, 70404>>, <<70413, 70414>>,
       <<70417, 70418>>, <<70441, 70441>>, <<70449, 70449>>, <<70452, 70452>>, <<70458, 70458>>, <<70469, 70470>>,
       <<70473, 70474>>, <<70478, 70479>>, <<70481, 70486>>, <<70488, 70492>>, <<70500, 70501>>, <<70509, 70511>>,
       <<70517, 70655>>, <<70748, 70748>>, <<70754, 70783>>, <<70856, 70863>>, <<70874, 71039>>, <<71094, 71095>>,
       <<71134, 71167>>, <<71237, 71247>>, <<71258, 71263>>, <<71277, 71295>>, <<71354, 71359>>, <<71370, 71423>>,
       <<71451, 71452>>, <<71468, 71471>>, <<71495, 71679>>, <<71740, 71839>>, <<71923, 71934>>, <<71943, 71944>>,
       <<71946, 71947>>, <<71956, 71956>>, <<71959, 71959>>, <<71990, 71990>>, <<71993, 71994>>, <<72007, 72015>>,
       <<72026, 72095>>, <<72104, 72105>>, <<72152, 72153>>, <<72165, 72191>>, <<72264, 72271>>, <<72355, 72367>>,
       <<72441, 72703>>, <<72713, 72713>>, <<72759, 72759>>, <<72774, 72783>>, <<72813, 72815>>, <<72848, 72849>>,
       <<72872, 72872>>, <<72887, 72959>>, <<72967, 72967>>, <<72970, 72970>>, <<73015, 73017>>, <<73019, 73019>>,
       <<73022, 73022>>, <<73032, 73039>>, <<73050, 73055>>, <<73062, 73062>>, <<73065, 73065>>, <<73103, 73103>>,
       <<73106, 73106>>, <<73113, 73119>>, <<73130, 73439>>, <<73465, 73647>>, <<73649, 73663>>, <<73714, 73726>>,
       <<74650, 74751>>, <<74863, 74863>>, <<74869, 74879>>, <<75076, 77711>>, <<77811, 77823>>, <<78895, 82943>>,
       <<83527, 92159>>, <<92729, 92735>>, <<92767, 92767>>, <<92778, 92781>>, <<92863, 92863>>, <<92874, 92879>>,
       <<92910, 92911>>, <<92918, 92927>>, <<92998, 93007>>, <<93018, 93018>>, <<93026, 93026>>, <<93048, 93052>>,
       <<93072, 93759>>, <<93851, 93951>>, <<94027, 94030>>, <<94088, 94094>>, <<94112, 94175>>, <<94181, 94191>>,
       <<94194, 94207>>, <<100344, 100351>>, <<101590, 101631>>, <<101641, 110575>>, <<110580, 110580>>, <<110588, 110588>>,
       <<110591, 110591>>, <<110883, 110927>>, <<110931, 110947>>, <<110952, 110959>>, <<111356, 113663>>, <<113771, 113775>>,
       <<113789, 113791>>, <<113801, 113807>>, <<113818, 113819>>, <<113824, 118527>>, <<118574, 118575>>, <<118599, 118607>>,
       <<118724, 118783>>, <<119030, 119039>>, <<119079, 119080>>, <<119155, 119162>>, <<119275, 119295>>, <<119366, 119519>>,
       <<119540, 119551>>, <<119639, 119647>>, <<119673, 119807>>, <<119893, 119893>>, <<119965, 119965>>, <<119968, 119969>>,
       <<119971, 119972>>, <<119975, 119976>>, <<119981, 119981>>, <<119994, 119994>>, <<119996, 119996>>, <<120004, 120004>>,
       <<120070, 120070>>, <<120075, 120076>>, <<120085, 120085>>, <<120093, 120093>>, <<120122, 120122>>, <<120127, 120127>>,
       <<120133, 120133>>, <<120135, 120137>>, <<120145, 120145>>, <<120486, 120487>>, <<120780, 120781>>, <<121484, 121498>>,
       <<121504, 121504>>, <<121520, 122623>>, <<122655, 122879>>, <<122887, 122887>>, <<122905, 122906>>, <<122914, 122914>>,
       <<122917, 122917>>, <<122923, 123135>>, <<123181, 123183>>, <<123198, 123199>>, <<123210, 123213>>, <<123216, 123535>>,
       <<123567, 123583>>, <<123642, 123646>>, <<123648, 124895>>, <<124903, 124903>>, <<124908, 124908>>, <<124911, 124911>>,
       <<124927, 124927>>, <<125125, 125126>>, <<125143, 125183>>, <<125260, 125263>>, <<125274, 125277>>, <<125280, 126064>>,
       <<126133, 126208>>, <<126270, 126463>>, <<126468, 126468>>, <<126496, 126496>>, <<126499, 126499>>, <<126501, 126502>>,
       <<126504, 126504>>, <<126515, 126515>>, <<126520, 126520>>, <<126522, 126522>>, <<126524, 126529>>, <<126531, 126534>>,
       <<126536, 126536>>, <<126538, 126538>>, <<126540, 126540>>, <<126544, 126544>>, <<126547, 126547>>, <<126549, 126550>>,
       <<126552, 126552>>, <<126554, 126554>>, <<126556, 126556>>, <<126558, 126558>>, <<126560, 126560>>, <<126563, 126563>>,
       <<126565, 126566>>, <<126571, 126571>>, <<126579, 126579>>, <<126584, 126584>>, <<126589, 126589>>, <<126591, 126591>>,
       <<126602, 126602>>, <<126620, 126624>>, <<126628, 126628>>, <<126634, 126634>>, <<126652, 126703>>, <<126706, 126975>>,
       <<127020, 127023>>, <<127124, 127135>>, <<127151, 127152>>, <<127168, 127168>>, <<127184, 127184>>, <<127222, 127231>>,
       <<127406, 127461>>, <<127491, 127503>>, <<127548, 127551>>, <<127561, 127567>>, <<127570, 127583>>, <<127590, 127743>>,
       <<128728, 128732>>, <<128749, 128751>>, <<128765, 128767>>, <<128884, 128895>>, <<128985, 128991>>, <<129004, 129007>>,
       <<129009, 129023>>, <<129036, 129039>>, <<129096, 129103>>, <<129114, 129119>>, <<129160, 129167>>, <<129198, 129199>>,
       <<129202, 129279>>, <<129620, 129631>>, <<129646, 129647>>, <<129653, 129655>>, <<129661, 129663>>, <<129671, 129679>>,
       <<129709, 129711>>, <<129723, 129727>>, <<129734, 129743>>, <<129754, 129759>>, <<129768, 129775>>, <<129783, 129791>>,
       <<129939, 129939>>, <<129995, 130031>>, <<130042, 131071>>, <<173792, 173823>>, <<177977, 177983>>, <<178206, 178207>>,
       <<183970, 183983>>, <<191457, 194559>>, <<195102, 196607>>, <<201547, 917759>>, <<918000, 1114111>> >>

LatinUnprintable == {c \in Latin1Set : InRanges(LatinCode[c], UnprintableRanges)}

IsPrintable(c) ==
    IF c \in Latin1Set THEN c \notin LatinUnprintable
    ELSE ~InRanges(Ord(c), UnprintableRanges)

\* the n hexadecimal digits of the code
HexText(code, n) == [k \in 1..n |-> HexDigit(code \div (16 ^ (n - k)))]

\* the escape repr writes for a character that is not printable
ReprEscape(code) ==
    IF code < 256 THEN <<Backslash, "x">> \o HexText(code, 2)
    ELSE IF code < 65536 THEN <<Backslash, "u">> \o HexText(code, 4)
    ELSE <<Backslash, "U">> \o HexText(code, 8)

\* the quote repr puts around a string: the double quote when the string
\* holds an apostrophe and no double quote, the apostrophe otherwise
ReprQuote(s) ==
    IF (\E i \in 1..Len(s) : s[i] = "'") /\ ~(\E i \in 1..Len(s) : s[i] = Quote)
    THEN Quote ELSE "'"

\* repr on one character of a string that is quoted with q
ReprChar(c, q) ==
    IF c = Backslash THEN <<Backslash, Backslash>>
    ELSE IF c = q THEN <<Backslash, q>>
    ELSE IF c = Newline THEN <<Backslash, "n">>
    ELSE IF c = "\t" THEN <<Backslash, "t">>
    ELSE IF c = "\r" THEN <<Backslash, "r">>
    ELSE IF IsPrintable(c) THEN <<c>>
    ELSE ReprEscape(Ord(c))

RECURSIVE ReprBody(_, _)
ReprBody(s, q) ==
    IF s = <<>> THEN <<>>
    ELSE IF Len(s) = 1 THEN ReprChar(s[1], q)
    ELSE LET half == Len(s) \div 2
         IN  ReprBody(SubSeq(s, 1, half), q) \o ReprBody(SubSeq(s, half + 1, Len(s)), q)

\* repr of a str
ReprStr(s) == <<ReprQuote(s)>> \o ReprBody(s, ReprQuote(s)) \o <<ReprQuote(s)>>

\* repr(value)
RECURSIVE PyRepr(_)
PyRepr(value) ==
    IF value[1] = "str" THEN ReprStr(value[2])
    ELSE IF value[1] = "num" THEN value[2]
    ELSE IF value[1] = "bool" THEN (IF value[2] THEN <<"T","r","u","e">> ELSE <<"F","a","l","s","e">>)
    ELSE IF value[1] = "null" THEN <<"N","o","n","e">>
    ELSE IF value[1] = "arr"
    THEN <<"[">> \o Join([i \in 1..Len(value[2]) |-> PyRepr(value[2][i])],
                         <<",", Space>>) \o <<"]">>
    ELSE <<"{">> \o Join([i \in 1..Len(value[2]) |->
                            ReprStr(value[2][i][1]) \o <<":", Space>>
                              \o PyRepr(value[2][i][2])],
                         <<",", Space>>) \o <<"}">>

\* str(value)
PyStr(value) == IF value[1] = "str" THEN value[2] ELSE PyRepr(value)

\* the last step of parse_prompt_from_payload:
\*   if "prompt" in payload: return str(payload["prompt"]);  return ""
TopLevelPrompt(p) ==
    IF HasKey(p, K_prompt) THEN JStr(PyStr(Get(p, K_prompt))) ELSE JStr(<<>>)

\* parse_prompt_from_payload
parse_prompt_from_payload(p) ==
    IF Falsy(p) THEN JStr(<<>>)
    ELSE IF HasKey(p, K_input)
    THEN LET input_data == Get(p, K_input)
         IN  IF input_data[1] = "obj"
             THEN DictGet(input_data, K_prompt, JStr(<<>>))
             ELSE IF input_data[1] = "str"
             THEN LET decoded == Loads(input_data[2])
                  IN  IF decoded.ok /\ decoded.val[1] = "obj"
                      THEN DictGet(decoded.val, K_prompt, JStr(<<>>))
                      ELSE input_data
             ELSE TopLevelPrompt(p)
    ELSE TopLevelPrompt(p)

-----------------------------------------------------------------------------
(* Configuration and error messages.  The Japanese literals of the source  *)
(* are one element each, in translation.                                   *)

\* os.environ.get(name, default): a variable that is unset takes the
\* default, which is not empty; a variable set to "" stays empty
EnvValues == {"unset", "empty", "set"}

\* ResearchAgent.__init__: the two checks, GATEWAY_URL first
ResearchAgentInit(e) ==
    IF e.GATEWAY_URL = "empty"
    THEN [ok |-> FALSE, msg |-> <<"GATEWAY_URL (the environment variable is required)">>]
    ELSE IF e.COGNITO_SCOPE = "empty"
    THEN [ok |-> FALSE, msg |-> <<"COGNITO_SCOPE (the environment variable is required)">>]
    ELSE [ok |-> TRUE, msg |-> <<>>]

ErrorDict(text) == JObj(<< <<K_error, JStr(text)>> >>)

\* yield {"error": f"(configuration error): {e}. (check GATEWAY_URL and COGNITO_SCOPE)"}
ConfigErrorMessage(msg) ==
    ErrorDict(<<"(configuration error): ">> \o msg
                \o <<". (check that GATEWAY_URL and COGNITO_SCOPE are set)">>)

\* yield {"error": "(invalid payload: the 'prompt' field is required)"}
PromptErrorMessage == ErrorDict(<<"(invalid payload: the 'prompt' field is required)">>)

Exc(cls, msg) == [cls |-> cls, msg |-> msg]
NoExc == Exc("none", <<>>)

Exceptions ==
    {Exc("RuntimeError", <<"b","o","o","m">>),
     Exc("Exception", <<"M","C","P",Space,"d","o","w","n">>),
     Exc("Exception", <<"C","o","n","n","e","c","t","i","o","n",Space,"r","e","s","e","t">>),
     Exc("Exception", <<"n","o",Space,"T","o","o","l">>),
     Exc("Exception", <<"b","o","o","m">>)}

\* the exceptions graph(user_message) is let raise
GraphFaults ==
    {Exc("RuntimeError", <<"b","o","o","m">>),
     Exc("Exception", <<"M","C","P",Space,"d","o","w","n">>)}

\* the inner handler,  except Exception as graph_error:
\*   yield {"type": "error", "error": f"(graph execution error): {graph_error}"}
GraphErrorMessage(e) ==
    JObj(<< <<K_type, JStr(<<"e","r","r","o","r">>)>>,
            <<K_error, JStr(<<"(graph execution error): ">> \o e.msg)>> >>)

\* the outer handlers,  except RuntimeError  and  except Exception
OuterErrorMessage(e) ==
    LET error_msg == e.msg
        low == LowerStr(error_msg)
    IN  IF e.cls = "RuntimeError" THEN ErrorDict(error_msg)
        ELSE IF Contains(low, <<"c","o","n","n","e","c","t","i","o","n">>) \/ Contains(low, <<"m","c","p">>)
        THEN ErrorDict(<<"(MCP connection error): ">> \o error_msg
                         \o <<". (the MCP client session may have been closed)">>)
        ELSE IF Contains(low, <<"t","o","o","l">>)
        THEN ErrorDict(<<"(tool execution error): ">> \o error_msg
                         \o <<". (check the tool's permissions or parameters)">>)
        ELSE ErrorDict(<<"(an error occurred while processing the request): ">>
                         \o error_msg)

-----------------------------------------------------------------------------
(* The agents' tools *)

\* SlackAgentFactory.build, steps 2:  the tools with "slack" in their name,
\* or all the tools when there is none
SlackSelect(tools) ==
    LET slack_tools == _filter_tools_by_keyword(tools, KwSlack)
    IN  IF slack_tools = <<>> THEN tools ELSE slack_tools

\* TavilyAgentFactory.build, step 2:  the tools with "tavily" in their name,
\* or those with "extract", or all the tools
TavilySelect(tools) ==
    LET tavily_tools == _filter_tools_by_keyword(tools, KwTavily)
        extract_tools == _filter_tools_by_keyword(tools, KwExtract)
    IN  IF tavily_tools # <<>> THEN tavily_tools
        ELSE IF extract_tools # <<>> THEN extract_tools
        ELSE tools

-----------------------------------------------------------------------------
(* The graph.  invoke_agent_graph builds it with GraphBuilder; the         *)
(* executor behind graph(user_message) is the library's and is modelled    *)
(* from the design (spec.md 4.4).                                          *)

GraphNodes == <<"slack_agent", "tavily_agent", "block_agent">>
NodeSet == {GraphNodes[i] : i \in 1..Len(GraphNodes)}

\* a condition that lets the edge fire
always_true_condition(state) == TRUE

\* always_false_condition
always_false_condition(state) == FALSE

\* builder.add_edge("slack_agent", "tavily_agent")
\* builder.add_edge("tavily_agent", "block_agent", condition=always_false_condition)
GraphEdges ==
    << [from |-> "slack_agent", to |-> "tavily_agent", conditional |-> FALSE],
       [from |-> "tavily_agent", to |-> "block_agent", conditional |-> TRUE] >>

\* the entry point as a bug would set it: the second node of the chain
EntryPointTavily == "tavily_agent"

\* builder.set_entry_point("slack_agent")
EntryPoint == "slack_agent"

\* an edge fires if it has no condition or its condition holds of the run
EdgeFires(e, g) == ~e.conditional \/ always_false_condition(g)

\* the targets of the edges out of node n that fire, in declaration order
RECURSIVE FiredFrom(_, _, _)
FiredFrom(n, g, i) ==
    IF i > Len(GraphEdges) THEN <<>>
    ELSE IF GraphEdges[i].from = n /\ EdgeFires(GraphEdges[i], g)
         THEN <<GraphEdges[i].to>> \o FiredFrom(n, g, i + 1)
         ELSE FiredFrom(n, g, i + 1)

GraphUnbuilt ==
    [status |-> "unbuilt", node |-> [n \in NodeSet |-> "pending"],
     queue |-> <<>>, results |-> <<>>, started |-> <<>>]

\* builder.build(): the run before it starts, the entry node scheduled
GraphBuilt == [GraphUnbuilt EXCEPT !.status = "pending", !.queue = <<EntryPoint>>]

\* what one agent invocation returned: an object whose attribute message
\* is a dict with the list of blocks under "content"
T_hi     == <<Space,"h","i">>
T_blank  == <<Space, Newline>>
T_search == <<"S","e","a","r","c","h",Space,"o","k">>
T_plain  == <<"p","l","a","i","n">>
SmallJson == JObj(<< <<<<"u">>, JArr(<<JStr(<<"x">>)>>)>> >>)

K_text == <<"t","e","x","t">>
K_json == <<"j","s","o","n">>
K_toolResult == <<"t","o","o","l","R","e","s","u","l","t">>

TextBlock(text) == JObj(<< <<K_text, JStr(text)>> >>)
JsonBlock(value) == JObj(<< <<K_json, value>> >>)
ToolResultBlock(blocks) ==
    JObj(<< <<K_toolResult, JObj(<< <<K_content, JArr(blocks)>> >>)>> >>)
AgentResult(blocks) == [message |-> JObj(<< <<K_content, JArr(blocks)>> >>)]

\* a block that is not a dict stands before the text block
ResultText   == AgentResult(<< JStr(T_plain), TextBlock(T_hi) >>)
ResultBlank  == AgentResult(<< TextBlock(T_blank) >>)
\* an agent result without the attribute message, and one whose message is
\* None
ResultNoMessage == [stop_reason |-> "end_turn"]
ResultNoneMessage == [message |-> JNull]
\* the last block is a tool result without content
ResultNested ==
    AgentResult(<< JsonBlock(SmallJson),
                   ToolResultBlock(<< TextBlock(T_search), JsonBlock(JNum(<<"7">>)) >>),
                   JObj(<< <<K_toolResult, JObj(<<>>)>> >>) >>)

\* a tool result that holds a tool result: blocks at nesting depth 2
T_deep == <<"d","e","e","p">>
ResultDeep ==
    AgentResult(<< ToolResultBlock(<< TextBlock(T_hi),
                                      ToolResultBlock(<< TextBlock(T_deep),
                                                         JsonBlock(JStr(<<"y">>)) >>) >>) >>)

\* a count or a duration of the runtime, a Python int
PyInt(n) == JNum(NatStr(n))

\* an object json.dumps cannot write: a Python set
PySet == <<"set", <<>>>>

\* a structured block that holds such an object
ResultUnserialisable == AgentResult(<< TextBlock(T_hi), JsonBlock(PySet) >>)

\* what a node's execution returned: the results of its agent invocations,
\* its duration and its usage counters
Returned(results, time, tokens) ==
    [agent_results |-> results, execution_time |-> PyInt(time),
     accumulated_usage |-> [totalTokens |-> PyInt(tokens)]]

\* what a node's execution can return; an attribute that the aggregation
\* reads with a default is absent from some
NodeReturns ==
    {Returned(<<ResultText>>, 700, 21),
     [agent_results |-> <<ResultBlank, ResultNoMessage, ResultNoneMessage>>,
      execution_time |-> PyInt(0),
      accumulated_usage |-> [inputTokens |-> PyInt(3)]],
     [agent_results |-> <<ResultNested>>],
     Returned(<<ResultText, ResultNested>>, 1500, 42),
     Returned(<<ResultDeep>>, 5, 0),
     Returned(<<ResultUnserialisable>>, 1, 1)}

\* what a failed execution leaves: no agent result
FailedReturn == Returned(<<>>, 300, 0)

NodeResult(n, status, ret, error) ==
    [node |-> n, status |-> status, error |-> error] @@ ret

-----------------------------------------------------------------------------
(* The aggregation of a finished run into the Report (structured_response) *)

\* what a for loop over the value goes through: the items of a list, the
\* keys of a dict, the characters of a str
Iterated(value) ==
    IF value[1] = "arr" THEN value[2]
    ELSE IF value[1] = "obj" THEN [i \in 1..Len(value[2]) |-> JStr(value[2][i][1])]
    ELSE IF value[1] = "set" THEN <<>>
    ELSE [i \in 1..Len(value[2]) |-> JStr(<<value[2][i]>>)]

Iterable(value) == value[1] \in {"arr", "obj", "str", "set"}

\* isinstance(value, dict)
IsDict(value) == value[1] = "obj"

\* line 44:  getattr(agent_result, "message", {}) or {}
MessageOf(agent_result) ==
    IF "message" \in DOMAIN agent_result /\ ~Falsy(agent_result.message)
    THEN agent_result.message
    ELSE JObj(<<>>)

\* line 45:  message.get("content", [])
ContentOf(message) == DictGet(message, K_content, JArr(<<>>))

\* line 57:  block.get("toolResult", {}).get("content", [])
InnerContent(block) == DictGet(Get(block, K_toolResult), K_content, JArr(<<>>))

HasText(block) == IsDict(block) /\ HasKey(block, K_text)
HasJson(block) == IsDict(block) /\ HasKey(block, K_json)

TextsOf(blocks) == [i \in 1..Len(blocks) |-> Get(blocks[i], K_text)]
JsonsOf(blocks) == [i \in 1..Len(blocks) |-> Get(blocks[i], K_json)]

\* lines 57-62: the texts and the structured blocks of the blocks of a tool
\* result that are dicts
InnerTexts(content) == TextsOf(SelectSeq(Iterated(content), HasText))
InnerJsons(content) == JsonsOf(SelectSeq(Iterated(content), HasJson))

\* lines 50-62 on one block: one that is not a dict is passed over
TextsOfBlock(block) ==
    IF ~IsDict(block) THEN <<>>
    ELSE (IF HasKey(block, K_text) THEN <<Get(block, K_text)>> ELSE <<>>)
         \o (IF HasKey(block, K_toolResult) THEN InnerTexts(InnerContent(block)) ELSE <<>>)

JsonsOfBlock(block) ==
    IF ~IsDict(block) THEN <<>>
    ELSE (IF HasKey(block, K_json) THEN <<Get(block, K_json)>> ELSE <<>>)
         \o (IF HasKey(block, K_toolResult) THEN InnerJsons(InnerContent(block)) ELSE <<>>)

\* texts and jsons after the loop over the blocks, in arrival order
TextsOfBlocks(blocks) == Join([i \in 1..Len(blocks) |-> TextsOfBlock(blocks[i])], <<>>)
JsonsOfBlocks(blocks) == Join([i \in 1..Len(blocks) |-> JsonsOfBlock(blocks[i])], <<>>)

BlockTexts(content) == TextsOfBlocks(Iterated(content))
BlockJsons(content) == JsonsOfBlocks(Iterated(content))

\* line 57 raises on the block: its toolResult has no method get (it is not
\* a dict), or the content of the toolResult cannot be gone through
BlockRaises(block) ==
    /\ IsDict(block)
    /\ HasKey(block, K_toolResult)
    /\ \/ ~IsDict(Get(block, K_toolResult))
       \/ ~Iterable(InnerContent(block))

\* what the except of lines 65-67 returns
NothingExtracted == [text |-> <<>>, jsons |-> <<>>]

\* line 64:  "\n".join(texts).strip(), jsons;  the join raises when a text
\* is not a str
JoinedTexts(texts, jsons) ==
    IF \E i \in 1..Len(texts) : texts[i][1] # "str" THEN NothingExtracted
    ELSE [text |-> Strip(Join([i \in 1..Len(texts) |-> texts[i][2]], <<Newline>>)),
          jsons |-> jsons]

\* lines 49-64 on the blocks of the content
ExtractedBlocks(blocks) ==
    IF \E i \in 1..Len(blocks) : BlockRaises(blocks[i]) THEN NothingExtracted
    ELSE JoinedTexts(TextsOfBlocks(blocks), JsonsOfBlocks(blocks))

\* lines 45-67: the message has no method get when it is not a dict, and
\* the for loop raises on a content that cannot be gone through
Extracted(message) ==
    IF ~IsDict(message) THEN NothingExtracted
    ELSE IF ~Iterable(ContentOf(message)) THEN NothingExtracted
    ELSE ExtractedBlocks(Iterated(ContentOf(message)))

\* extract_message_content
extract_message_content(agent_result) == Extracted(MessageOf(agent_result))

\* detect_mcp_usage
detect_mcp_usage(text) ==
    \E indicator \in {<<"s","l","a","c","k","_">>, <<"t","a","v","i","l","y","_">>, <<"e","x","t","r","a","c","t">>, <<"s","e","a","r","c","h">>} :
        Contains(LowerStr(text), indicator)

\* the fixed text of a Report whose nodes produced no text
NoContentSentinel == <<"(the response was empty)">>

\* full_text as a bug would write it: the join also when there are no texts
FullTextNoSentinel(all_texts) == Join(all_texts, <<Newline, Newline>>)

\* "\n\n".join(all_texts) if all_texts else (the sentinel)
FullText(all_texts) ==
    IF all_texts # <<>> THEN Join(all_texts, <<Newline, Newline>>)
    ELSE NoContentSentinel

\* str(status) of a member of the runtime's Status
StatusNames ==
    << <<"pending", <<"S","t","a","t","u","s",".","P","E","N","D","I","N","G">>>>,
       <<"running", <<"S","t","a","t","u","s",".","E","X","E","C","U","T","I","N","G">>>>,
       <<"completed", <<"S","t","a","t","u","s",".","C","O","M","P","L","E","T","E","D">>>>,
       <<"failed", <<"S","t","a","t","u","s",".","F","A","I","L","E","D">>>> >>

StatusStr(status) ==
    StatusNames[CHOOSE i \in 1..Len(StatusNames) : StatusNames[i][1] = status][2]

\* str(getattr(node_result, "status", "unknown"))
NodeStatusStr(r) ==
    IF "status" \in DOMAIN r THEN StatusStr(r.status)
    ELSE <<"u","n","k","n","o","w","n">>

\* the messages of one node: for each agent result a text message if the
\* text is not empty, then a json message if there are structured blocks
RECURSIVE NodeMessages(_)
NodeMessages(agent_results) ==
    IF agent_results = <<>> THEN <<>>
    ELSE LET got == extract_message_content(Head(agent_results))
         IN  (IF got.text # <<>>
              THEN << JObj(<< <<K_type, JStr(<<"t","e","x","t">>)>>,
                              <<K_content, JStr(got.text)>> >>) >>
              ELSE <<>>)
             \o (IF got.jsons # <<>>
                 THEN << JObj(<< <<K_type, JStr(<<"j","s","o","n">>)>>,
                                 <<K_content, JArr(got.jsons)>> >>) >>
                 ELSE <<>>)
             \o NodeMessages(Tail(agent_results))

\* the entries one node adds to all_texts:  f"[{node_name}] {text}"
RECURSIVE NodeTexts(_, _)
NodeTexts(node_name, agent_results) ==
    IF agent_results = <<>> THEN <<>>
    ELSE LET got == extract_message_content(Head(agent_results))
         IN  (IF got.text # <<>>
              THEN << <<"[", node_name, "]", Space>> \o got.text >>
              ELSE <<>>)
             \o NodeTexts(node_name, Tail(agent_results))

\* whether a text of the node shows a tool in use
NodeUsedMcp(agent_results) ==
    \E i \in 1..Len(agent_results) :
        LET got == extract_message_content(agent_results[i])
        IN  got.text # <<>> /\ detect_mcp_usage(got.text)

\* getattr(result, "execution_time", 0)
ExecutionTime(result) ==
    IF "execution_time" \in DOMAIN result THEN result.execution_time ELSE PyInt(0)

\* result.accumulated_usage.get("totalTokens", 0)
\*   if hasattr(result, "accumulated_usage") else 0
TotalTokens(result) ==
    IF "accumulated_usage" \notin DOMAIN result THEN PyInt(0)
    ELSE IF "totalTokens" \in DOMAIN result.accumulated_usage
    THEN result.accumulated_usage.totalTokens
    ELSE PyInt(0)

\* node_data of one NodeResult
NodeData(r) ==
    JObj(<< <<K_name, JStr(<<r.node>>)>>,
            <<K_messages, JArr(NodeMessages(r.agent_results))>>,
            <<K_execution_time_ms, ExecutionTime(r)>>,
            <<K_status, JStr(NodeStatusStr(r))>>,
            <<K_tokens_used, TotalTokens(r)>> >>)

RECURSIVE AllTexts(_)
AllTexts(results) ==
    IF results = <<>> THEN <<>>
    ELSE NodeTexts(Head(results).node, Head(results).agent_results)
         \o AllTexts(Tail(results))

\* "completed" if graph_result.status == Status.COMPLETED else "failed"
ReportStatus(g) == IF g.status = "completed" THEN <<"c","o","m","p","l","e","t","e","d">> ELSE <<"f","a","i","l","e","d">>

\* getattr(graph_result, "total_nodes", 0)  and the like
CounterOf(g, name) == IF name \in DOMAIN g THEN g[name] ELSE PyInt(0)

\* the "metadata" of the Report
ReportMetadata(g, p) ==
    JObj(<< <<K_session_id, DictGet(p, K_sessionId, JStr(<<"u","n","k","n","o","w","n">>))>>,
            <<K_total_nodes, CounterOf(g, "total_nodes")>>,
            <<K_completed_nodes, CounterOf(g, "completed_nodes")>>,
            <<K_failed_nodes, CounterOf(g, "failed_nodes")>> >>)

\* structured_response, as lines 453-511 build it from graph_result
Aggregate(g, p) ==
    JObj(<< <<K_status, JStr(ReportStatus(g))>>,
            <<<<"a","g","e","n","t","s">>, JArr([i \in 1..Len(g.results) |-> NodeData(g.results[i])])>>,
            <<K_total_execution_time_ms, ExecutionTime(g)>>,
            <<K_total_tokens, TotalTokens(g)>>,
            <<K_mcp_tools_used,
              JBool(\E i \in 1..Len(g.results) : NodeUsedMcp(g.results[i].agent_results))>>,
            <<K_full_text, JStr(FullText(AllTexts(g.results)))>>,
            <<K_metadata, ReportMetadata(g, p)>> >>)

\* json.dumps can write the value
RECURSIVE Serialisable(_)
Serialisable(value) ==
    \/ value[1] \in {"str", "num", "bool", "null"}
    \/ value[1] = "arr" /\ \A i \in 1..Len(value[2]) : Serialisable(value[2][i])
    \/ value[1] = "obj" /\ \A i \in 1..Len(value[2]) : Serialisable(value[2][i][2])

\* the TypeError of json.dumps on a value that holds a set
DumpsTypeError ==
    Exc("TypeError",
        <<"O","b","j","e","c","t",Space,"o","f",Space,"t","y","p","e",Space,"s","e","t",
          Space,"i","s",Space,"n","o","t",Space,"J","S","O","N",Space,
          "s","e","r","i","a","l","i","z","a","b","l","e">>)

\* the executor's account of a run: the number of nodes in a state, the
\* sum of the nodes' durations and of their token counts
CountNodes(g, status) == Cardinality({n \in NodeSet : g.node[n] = status})

RECURSIVE SumTimes(_)
SumTimes(results) ==
    IF results = <<>> THEN 0
    ELSE NatOf(ExecutionTime(Head(results))[2]) + SumTimes(Tail(results))

RECURSIVE SumTokens(_)
SumTokens(results) ==
    IF results = <<>> THEN 0
    ELSE NatOf(TotalTokens(Head(results))[2]) + SumTokens(Tail(results))

RunMeasures(g) ==
    [execution_time |-> PyInt(SumTimes(g.results)),
     accumulated_usage |-> [totalTokens |-> PyInt(SumTokens(g.results))],
     total_nodes |-> PyInt(Len(GraphNodes)),
     completed_nodes |-> PyInt(CountNodes(g, "completed")),
     failed_nodes |-> PyInt(CountNodes(g, "failed"))]

\* the run as graph(user_message) returns it
Finished(g) == g @@ RunMeasures(g)

NoReport == JNull

-----------------------------------------------------------------------------
(* Sequences of bounded length over a set *)

SeqsUpTo(S, n) == UNION {[1..k -> S] : k \in 0..n}

RECURSIVE Flatten(_)
Flatten(pages) ==
    IF pages = <<>> THEN <<>> ELSE Head(pages) \o Flatten(Tail(pages))

RECURSIVE SumLen(_)
SumLen(pages) ==
    IF pages = <<>> THEN 0 ELSE Len(Head(pages)) + SumLen(Tail(pages))

-----------------------------------------------------------------------------
(* Routing, stated on positions of the catalog *)

\* the keyword occurs in the name when letter case is ignored
OccursIgnoringCase(name, kw) ==
    \E off \in 0..(Len(name) - Len(kw)) :
        \A j \in 1..Len(kw) : LowerChar(name[off + j]) = LowerChar(kw[j])

\* the positions of the catalog whose tool name contains the keyword
MatchPositions(catalog, kw) ==
    {i \in 1..Len(catalog) : OccursIgnoringCase(_get_tool_name(catalog[i]), kw)}

\* the k-th smallest member of a set of positions
KthOf(P, k) == CHOOSE i \in P : Cardinality({j \in P : j < i}) = k - 1

\* out is the catalog restricted to the positions P, in catalog order
IsSelection(out, catalog, P) ==
    /\ Len(out) = Cardinality(P)
    /\ \A k \in 1..Len(out) : out[k] = catalog[KthOf(P, k)]

\* how often a tool occurs in a sequence
Count(seq, t) == Cardinality({i \in 1..Len(seq) : seq[i] = t})

-----------------------------------------------------------------------------
(* The state *)

McpUnopened ==
    [state |-> "unopened", enters |-> 0, exits |-> 0,
     used_open |-> FALSE, used_closed |-> FALSE]

RouteIdle == [catalog |-> <<>>, k1 |-> <<>>, k2 |-> <<>>, done |-> FALSE,
              out1 |-> <<>>, out2 |-> <<>>]

DecodeIdle == [input |-> [kind |-> "bytes", data |-> <<>>],
               encoded |-> JNull, done |-> FALSE, out |-> NoResult]

\* the chat page as the script's first run leaves it:
\*   st.session_state.messages = []
\* The script is idle (it has run to its end and waits for an event of the
\* page) or calling (it has appended the user's message and blocks in
\* invoke_agent_runtime, line 420); stopped counts the runs that were
\* stopped in their call since the history was last empty.
ChatIdle == [messages |-> <<>>, turns |-> 0, pc |-> "idle", stopped |-> 0]

\* no generator of TavilyAgentFactory.stream has been made
StreamIdle == [pc |-> "idle", events |-> <<>>, at |-> 0, yielded |-> <<>>]

requestVars ==
    <<pc, env, payload, user_message, mcp, exc, agents, graph,
      structured_response, yielded>>

vars == <<pc, env, payload, user_message, mcp, exc, agents, graph,
          structured_response, yielded, fetch, remote, route, decode, chat,
          streaming>>

\* no request is being served (the state of the request in the
\* specifications of the single functions)
RequestIdle ==
    /\ pc = "idle"
    /\ env = [GATEWAY_URL |-> "unset", COGNITO_SCOPE |-> "unset"]
    /\ payload = JNull
    /\ user_message = JStr(<<>>)
    /\ mcp = McpUnopened
    /\ exc = NoExc
    /\ agents = <<>>
    /\ graph = GraphUnbuilt
    /\ structured_response = NoReport
    /\ yielded = <<>>

-----------------------------------------------------------------------------
(* One request through invoke_agent_graph *)

T_go == <<"g","o">>

Payloads ==
    { JObj(<< <<K_prompt, JStr(T_go)>> >>),
      JObj(<< <<K_input, JObj(<< <<K_prompt, JStr(T_go)>>,
                                 <<K_session_id, JStr(<<"s">>)>> >>)>> >>),
      JObj(<< <<K_input, JStr(Dumps(JObj(<< <<K_prompt, JStr(T_go)>> >>)))>> >>),
      JObj(<< <<K_input, JStr(T_go)>> >>),
      JObj(<< <<K_input, JNum(<<"7">>)>>, <<K_prompt, JStr(T_go)>>,
              <<K_sessionId, JStr(<<"s","1">>)>> >>),
      JObj(<< <<K_input, JObj(<<>>)>>, <<K_prompt, JStr(T_go)>> >>),
      JObj(<< <<K_prompt, JStr(<<>>)>> >>),
      JObj(<<>>),
      JNull }

Remotes ==
    { [pages |-> << <<SlackTool, TavilyTool>> >>, endless |-> FALSE],
      [pages |-> << <<SlackTool>>, <<ExtractTool, PlainTool>> >>, endless |-> FALSE],
      [pages |-> << <<BothTool>>, <<>>, <<TavilyTool>> >>, endless |-> FALSE],
      [pages |-> << <<PlainTool>> >>, endless |-> FALSE],
      [pages |-> << <<>> >>, endless |-> FALSE],
      [pages |-> << <<PlainTool>> >>, endless |-> TRUE] }

Init ==
    /\ chat = ChatIdle
    /\ streaming = StreamIdle
    /\ pc = "start"
    /\ env \in [GATEWAY_URL : EnvValues, COGNITO_SCOPE : EnvValues]
    /\ payload \in Payloads
    /\ remote \in Remotes
    /\ user_message = JStr(<<>>)
    /\ mcp = McpUnopened
    /\ exc = NoExc
    /\ agents = <<>>
    /\ graph = GraphUnbuilt
    /\ structured_response = NoReport
    /\ yielded = <<>>
    /\ fetch = FetchIdle
    /\ route = RouteIdle
    /\ decode = DecodeIdle

\* a listing call or a node execution is made: whether the session is open
Use(m) ==
    IF m.state = "open" THEN [m EXCEPT !.used_open = TRUE]
    ELSE [m EXCEPT !.used_closed = TRUE]

\* lines 359-361: ResearchAgent() is constructed
ConfigOk ==
    /\ pc = "start"
    /\ ResearchAgentInit(env).ok
    /\ pc' = "prompt"
    /\ UNCHANGED <<env, payload, user_message, mcp, exc, agents, graph,
                   structured_response, yielded, fetch, remote, route, decode, chat, streaming>>

\* lines 362-366: ResearchAgent() raises ValueError
ConfigError ==
    /\ pc = "start"
    /\ ~ResearchAgentInit(env).ok
    /\ yielded' = Append(yielded, ConfigErrorMessage(ResearchAgentInit(env).msg))
    /\ pc' = "done"
    /\ UNCHANGED <<env, payload, user_message, mcp, exc, agents, graph,
                   structured_response, fetch, remote, route, decode, chat, streaming>>

\* lines 374-376: the prompt is resolved and is not empty
PromptOk ==
    /\ pc = "prompt"
    /\ ~Falsy(parse_prompt_from_payload(payload))
    /\ user_message' = parse_prompt_from_payload(payload)
    /\ pc' = "token"
    /\ UNCHANGED <<env, payload, mcp, exc, agents, graph,
                   structured_response, yielded, fetch, remote, route, decode, chat, streaming>>

\* lines 374-379: the prompt is resolved and is empty
PromptError ==
    /\ pc = "prompt"
    /\ Falsy(parse_prompt_from_payload(payload))
    /\ user_message' = parse_prompt_from_payload(payload)
    /\ yielded' = Append(yielded, PromptErrorMessage)
    /\ pc' = "done"
    /\ UNCHANGED <<env, payload, mcp, exc, agents, graph,
                   structured_response, fetch, remote, route, decode, chat, streaming>>

\* line 395: create_mcp_client_and_tools returns the client
CreateClient ==
    /\ pc = "token"
    /\ pc' = "enter"
    /\ UNCHANGED <<env, payload, user_message, mcp, exc, agents, graph,
                   structured_response, yielded, fetch, remote, route, decode, chat, streaming>>

\* line 395 raises (the token cannot be acquired); lines 537-554 answer
CreateClientRaises(e) ==
    /\ pc = "token"
    /\ yielded' = Append(yielded, OuterErrorMessage(e))
    /\ pc' = "done"
    /\ UNCHANGED <<env, payload, user_message, mcp, exc, agents, graph,
                   structured_response, fetch, remote, route, decode, chat, streaming>>

\* line 399: with mcp_client:  opens the session
EnterSession ==
    /\ pc = "enter"
    /\ mcp' = [mcp EXCEPT !.state = "open", !.enters = mcp.enters + 1]
    /\ pc' = "slack_list"
    /\ fetch' = FetchStart
    /\ UNCHANGED <<env, payload, user_message, exc, agents, graph,
                   structured_response, yielded, remote, route, decode, chat, streaming>>

\* line 399 raises (the session cannot be opened); lines 537-554 answer
EnterRaises(e) ==
    /\ pc = "enter"
    /\ mcp' = [mcp EXCEPT !.state = "open_failed"]
    /\ yielded' = Append(yielded, OuterErrorMessage(e))
    /\ pc' = "done"
    /\ UNCHANGED <<env, payload, user_message, exc, agents, graph,
                   structured_response, fetch, remote, route, decode, chat, streaming>>

\* lines 268 and 312: one listing call of get_full_tools_list
ListTools ==
    /\ pc \in {"slack_list", "tavily_list"}
    /\ get_full_tools_list(MaxListCalls)
    /\ mcp' = Use(mcp)
    /\ UNCHANGED <<pc, env, payload, user_message, exc, agents, graph,
                   structured_response, yielded, remote, route, decode, chat, streaming>>

\* a listing call raises: the exception leaves the with block
ListRaises(e) ==
    /\ pc \in {"slack_list", "tavily_list"}
    /\ fetch.state = "looping"
    /\ fetch.calls < MaxListCalls
    /\ fetch' = [fetch EXCEPT !.state = "raised", !.calls = fetch.calls + 1,
                              !.sent = fetch.pagination_token,
                              !.answered = fetch.last]
    /\ mcp' = Use(mcp)
    /\ exc' = e
    /\ pc' = "exit"
    /\ UNCHANGED <<env, payload, user_message, agents, graph,
                   structured_response, yielded, remote, route, decode, chat, streaming>>

\* lines 262-291: SlackAgentFactory.build, after its listing
BuildSlack ==
    /\ pc = "slack_list"
    /\ fetch.state = "returned"
    /\ agents' = Append(agents, [node |-> "slack_agent",
                                 tools |-> SlackSelect(fetch.tools),
                                 catalog |-> fetch.tools])
    /\ pc' = "tavily_list"
    /\ fetch' = FetchStart
    /\ UNCHANGED <<env, payload, user_message, mcp, exc, graph,
                   structured_response, yielded, remote, route, decode, chat, streaming>>

\* lines 310-335: TavilyAgentFactory.build, after its listing
BuildTavily ==
    /\ pc = "tavily_list"
    /\ fetch.state = "returned"
    /\ agents' = Append(agents, [node |-> "tavily_agent",
                                 tools |-> TavilySelect(fetch.tools),
                                 catalog |-> fetch.tools])
    /\ pc' = "build_graph"
    /\ UNCHANGED <<env, payload, user_message, mcp, exc, graph,
                   structured_response, yielded, fetch, remote, route, decode, chat, streaming>>

\* lines 412-433: the block agent and the graph are built
BuildGraph ==
    /\ pc = "build_graph"
    /\ agents' = Append(agents, [node |-> "block_agent", tools |-> <<>>,
                                 catalog |-> <<>>])
    /\ graph' = GraphBuilt
    /\ pc' = "invoke"
    /\ UNCHANGED <<env, payload, user_message, mcp, exc,
                   structured_response, yielded, fetch, remote, route, decode, chat, streaming>>

\* an Agent(...) constructor of lines 277, 324 or 412 raises: the exception
\* leaves the with block
BuildRaises(e) ==
    /\ \/ pc \in {"slack_list", "tavily_list"} /\ fetch.state = "returned"
       \/ pc = "build_graph"
    /\ exc' = e
    /\ pc' = "exit"
    /\ UNCHANGED <<env, payload, user_message, mcp, agents, graph,
                   structured_response, yielded, fetch, remote, route, decode, chat, streaming>>

\* line 446 raises, before a node has run or in the middle of the run;
\* lines 522-533 answer and return
GraphRaises(e) ==
    /\ pc = "invoke"
    /\ yielded' = Append(yielded, GraphErrorMessage(e))
    /\ pc' = "exit"
    /\ UNCHANGED <<env, payload, user_message, mcp, exc, agents, graph,
                   structured_response, fetch, remote, route, decode, chat, streaming>>

NoneRunning == \A n \in NodeSet : graph.node[n] # "running"

\* line 446, the executor: the next scheduled node starts
NodeStart ==
    /\ pc = "invoke"
    /\ graph.status \in {"pending", "running"}
    /\ graph.queue # <<>>
    /\ NoneRunning
    /\ graph' = [graph EXCEPT !.status = "running",
                              !.node[Head(graph.queue)] = "running",
                              !.queue = Tail(graph.queue),
                              !.started = Append(graph.started, Head(graph.queue))]
    /\ mcp' = Use(mcp)
    /\ UNCHANGED <<pc, env, payload, user_message, exc, agents,
                   structured_response, yielded, fetch, remote, route, decode, chat, streaming>>

\* line 446, the executor: the running node returns its results; its
\* outgoing edges are evaluated and the targets of those that fire scheduled
NodeCompletes(n, ret) ==
    /\ pc = "invoke"
    /\ graph.node[n] = "running"
    /\ LET done == [graph EXCEPT
                      !.node[n] = "completed",
                      !.results = Append(graph.results,
                                         NodeResult(n, "completed", ret, NoExc))]
       IN  graph' = [done EXCEPT !.queue = done.queue \o FiredFrom(n, done, 1)]
    /\ UNCHANGED <<pc, env, payload, user_message, mcp, exc, agents,
                   structured_response, yielded, fetch, remote, route, decode, chat, streaming>>

\* line 446, the executor: the running node's execution fails; the failure
\* is recorded in its NodeResult and nothing is scheduled from it
NodeFails(n, e) ==
    /\ pc = "invoke"
    /\ graph.node[n] = "running"
    /\ graph' = [graph EXCEPT
                    !.node[n] = "failed",
                    !.results = Append(graph.results,
                                       NodeResult(n, "failed", FailedReturn, e))]
    /\ UNCHANGED <<pc, env, payload, user_message, mcp, exc, agents,
                   structured_response, yielded, fetch, remote, route, decode, chat, streaming>>

\* line 446, the executor: no node is left to run; the nodes never reached
\* are skipped and the run is failed if a node failed, completed otherwise
GraphFinish ==
    /\ pc = "invoke"
    /\ graph.status = "running"
    /\ graph.queue = <<>>
    /\ NoneRunning
    /\ graph' = Finished([graph EXCEPT
                    !.status = IF \E n \in NodeSet : graph.node[n] = "failed"
                               THEN "failed" ELSE "completed",
                    !.node = [n \in NodeSet |->
                                IF graph.node[n] = "pending" THEN "skipped"
                                ELSE graph.node[n]]])
    /\ pc' = "aggregate"
    /\ UNCHANGED <<env, payload, user_message, mcp, exc, agents,
                   structured_response, yielded, fetch, remote, route, decode, chat, streaming>>

\* lines 448-520: the Report is built, and json.dumps raises on a block
\* it cannot write; lines 522-533 answer and return
AggregateRaises ==
    /\ pc = "aggregate"
    /\ ~Serialisable(Aggregate(graph, payload))
    /\ structured_response' = Aggregate(graph, payload)
    /\ yielded' = Append(yielded, GraphErrorMessage(DumpsTypeError))
    /\ pc' = "exit"
    /\ UNCHANGED <<env, payload, user_message, mcp, exc, agents, graph,
                   fetch, remote, route, decode, chat, streaming>>

\* lines 448-520: the Report is built and yielded as its JSON text
AggregateAndYield ==
    /\ pc = "aggregate"
    /\ Serialisable(Aggregate(graph, payload))
    /\ structured_response' = Aggregate(graph, payload)
    /\ yielded' = Append(yielded, JStr(Dumps(Aggregate(graph, payload))))
    /\ pc' = "exit"
    /\ UNCHANGED <<env, payload, user_message, mcp, exc, agents, graph,
                   fetch, remote, route, decode, chat, streaming>>

\* the end of the with block as a bug would write it: the session is
\* released only when the block ended without an exception
ExitSessionOnSuccessOnly ==
    /\ pc = "exit"
    /\ mcp' = IF exc = NoExc
              THEN [mcp EXCEPT !.state = "released", !.exits = mcp.exits + 1]
              ELSE mcp
    /\ yielded' = IF exc = NoExc THEN yielded
                  ELSE Append(yielded, OuterErrorMessage(exc))
    /\ exc' = NoExc
    /\ pc' = "done"
    /\ UNCHANGED <<env, payload, user_message, agents, graph,
                   structured_response, fetch, remote, route, decode, chat, streaming>>

\* the end of the with block of line 399: __exit__ releases the session,
\* whether the block ended normally, by return or by an exception; an
\* exception that left the block is then answered by lines 537-554
ExitSession ==
    /\ pc = "exit"
    /\ mcp' = [mcp EXCEPT !.state = "released", !.exits = mcp.exits + 1]
    /\ yielded' = IF exc = NoExc THEN yielded
                  ELSE Append(yielded, OuterErrorMessage(exc))
    /\ exc' = NoExc
    /\ pc' = "done"
    /\ UNCHANGED <<env, payload, user_message, agents, graph,
                   structured_response, fetch, remote, route, decode, chat, streaming>>

\* __exit__ itself raises while it releases the session: its exception
\* replaces the one that left the block, and lines 537-554 answer it
ExitRaises(e) ==
    /\ pc = "exit"
    /\ mcp' = [mcp EXCEPT !.state = "released", !.exits = mcp.exits + 1]
    /\ yielded' = Append(yielded, OuterErrorMessage(e))
    /\ exc' = NoExc
    /\ pc' = "done"
    /\ UNCHANGED <<env, payload, user_message, agents, graph,
                   structured_response, fetch, remote, route, decode, chat, streaming>>

Next ==
    \/ ConfigOk
    \/ ConfigError
    \/ PromptOk
    \/ PromptError
    \/ CreateClient
    \/ \E e \in Exceptions : CreateClientRaises(e)
    \/ EnterSession
    \/ \E e \in Exceptions : EnterRaises(e)
    \/ ListTools
    \/ \E e \in Exceptions : ListRaises(e)
    \/ BuildSlack
    \/ BuildTavily
    \/ BuildGraph
    \/ \E e \in Exceptions : BuildRaises(e)
    \/ \E e \in GraphFaults : GraphRaises(e)
    \/ NodeStart
    \/ \E n \in NodeSet, ret \in NodeReturns : NodeCompletes(n, ret)
    \/ \E n \in NodeSet, e \in Exceptions : NodeFails(n, e)
    \/ GraphFinish
    \/ AggregateAndYield
    \/ AggregateRaises
    \/ ExitSession
    \/ \E e \in Exceptions : ExitRaises(e)

Spec == Init /\ [][Next]_vars

-----------------------------------------------------------------------------
(* Properties of one request *)

IsErrorMessage(m) == m[1] = "obj" /\ HasKey(m, K_error)
IsReportMessage(m) == m[1] = "str"

\* C1: the gateway session is opened at most once per request, and once in
\* every request that lists tools or executes a node; every listing call and
\* every node execution is made while it is open; and every request that
\* has ended has released the session it opened, whichever way it ended.
C1_SessionScoped ==
    /\ mcp.enters <= 1
    /\ mcp.exits <= mcp.enters
    /\ ~mcp.used_closed
    /\ mcp.used_open => mcp.enters = 1
    /\ (mcp.state = "open") <=> (mcp.enters = 1 /\ mcp.exits = 0)
    /\ pc = "done" => (mcp.state # "open" /\ mcp.exits = mcp.enters)

\* a request whose listing call raised inside the session has ended, with
\* the session used and released
C1_Witness ==
    /\ pc = "done"
    /\ fetch.state = "raised"
    /\ mcp.used_open
    /\ mcp.state = "released"
    /\ mcp.enters = 1
    /\ mcp.exits = 1

\* C2: a request that has ended has yielded a message, and one that ended
\* without a Report (a failure path) has yielded exactly one message, a
\* structured error.
C2_OneErrorPerFailure ==
    pc = "done" =>
        /\ yielded # <<>>
        /\ structured_response = NoReport =>
              (Len(yielded) = 1 /\ IsErrorMessage(yielded[1]))

\* the tools of the agent built for a node, and the catalog it was built from
IsToolAgent(a) == a.node \in {"slack_agent", "tavily_agent"}

\* C5: a catalog fetch never returns an empty catalog, and no agent with
\* tools is built from an empty catalog.
C5_EmptyCatalogSignalled ==
    /\ fetch.state = "returned" => fetch.tools # <<>>
    /\ \A i \in 1..Len(agents) : IsToolAgent(agents[i]) => agents[i].catalog # <<>>

NodeKeyword(node) == IF node = "slack_agent" THEN KwSlack ELSE KwTavily

\* C6: the tools assigned to the Slack node and to the web-summarization
\* node are never empty, and a node whose keyword matches no tool of the
\* catalog is assigned the entire catalog.
C6_SubsetNeverEmpty ==
    \A i \in 1..Len(agents) :
        IsToolAgent(agents[i]) =>
            /\ agents[i].tools # <<>>
            /\ MatchPositions(agents[i].catalog, NodeKeyword(agents[i].node)) = {}
                  => agents[i].tools = agents[i].catalog

Started(n) == \E i \in 1..Len(graph.started) : graph.started[i] = n
RunEnded == graph.status \in {"completed", "failed"}

\* C8: in a run in which both agent nodes succeed the always-false edge
\* never fires: the block node is never executed, and once the run has
\* ended the block node is skipped, the run is completed and it holds
\* exactly two NodeResults.
C8_BlockNodeSkipped ==
    (graph.node["slack_agent"] = "completed" /\ graph.node["tavily_agent"] = "completed") =>
        /\ ~Started("block_agent")
        /\ graph.node["block_agent"] \in {"pending", "skipped"}
        /\ RunEnded =>
              /\ graph.node["block_agent"] = "skipped"
              /\ graph.status = "completed"
              /\ Len(graph.results) = 2

\* both agent nodes succeeded and the request has ended
C8_Witness ==
    /\ pc = "done"
    /\ graph.status = "completed"
    /\ graph.started = <<"slack_agent", "tavily_agent">>
    /\ graph.node["block_agent"] = "skipped"
    /\ Len(graph.results) = 2

\* the nodes reached only through node n
Downstream(n) ==
    IF n = "slack_agent" THEN {"tavily_agent", "block_agent"}
    ELSE IF n = "tavily_agent" THEN {"block_agent"}
    ELSE {}

\* C9: when a node's execution fails the failure is recorded in that node's
\* NodeResult, the nodes reached only through it are never executed and end
\* skipped, the run ends failed, and the request still yields as its result
\* the aggregated Report, with status "failed" and a full_text that is not
\* empty, not an error object.
C9_FailedNodeStillReports ==
    \A n \in NodeSet :
        graph.node[n] = "failed" =>
            /\ \E i \in 1..Len(graph.results) :
                  /\ graph.results[i].node = n
                  /\ graph.results[i].status = "failed"
                  /\ graph.results[i].error \in Exceptions
            /\ \A d \in Downstream(n) : ~Started(d)
            /\ RunEnded =>
                  /\ graph.status = "failed"
                  /\ \A d \in Downstream(n) : graph.node[d] = "skipped"
            /\ pc \in {"exit", "done"} =>
                  /\ structured_response # NoReport
                  /\ Get(structured_response, K_status) = JStr(<<"f","a","i","l","e","d">>)
                  /\ HasKey(structured_response, K_full_text)
                  /\ Get(structured_response, K_full_text)[1] = "str"
                  /\ Get(structured_response, K_full_text)[2] # <<>>
                  /\ yielded # <<>>
                  /\ IsReportMessage(yielded[1])
                  /\ yielded[1] = JStr(Dumps(structured_response))

-----------------------------------------------------------------------------
(* The catalog fetch on its own: every remote of up to MaxPages pages      *)

FetchTools == {SlackTool, PlainTool}
FetchPages == SeqsUpTo(FetchTools, MaxPageLen)

FetchRemotes ==
    {[pages |-> p, endless |-> e] :
        p \in (SeqsUpTo(FetchPages, MaxPages) \ {<<>>}), e \in BOOLEAN}

InitFetch ==
    /\ chat = ChatIdle
    /\ streaming = StreamIdle
    /\ RequestIdle
    /\ remote \in FetchRemotes
    /\ fetch = FetchStart
    /\ route = RouteIdle
    /\ decode = DecodeIdle

FetchStep ==
    /\ get_full_tools_list(MaxListCalls)
    /\ UNCHANGED <<requestVars, remote, route, decode, chat, streaming>>

NextFetch == FetchStep

SpecFetch == InitFetch /\ [][NextFetch]_vars

\* C3: for a remote that serves N pages and returns no cursor with the last,
\* the fetch makes exactly N listing calls, the first with no cursor and each
\* later one with the cursor the call before it returned, and the catalog it
\* returns is the N pages concatenated in page order (its length is the sum
\* of the page sizes).
C3_PaginationExact ==
    LET N == Len(remote.pages)
    IN  /\ fetch.calls = 1 => fetch.sent = None
        /\ fetch.calls > 1 => (fetch.sent # None /\ fetch.sent = fetch.answered)
        /\ ~remote.endless => fetch.calls <= N
        /\ (~remote.endless /\ fetch.state = "returned") =>
              /\ fetch.calls = N
              /\ fetch.tools = Flatten(remote.pages)
              /\ Len(fetch.tools) = SumLen(remote.pages)

\* a fetch of three pages of different sizes has returned
C3_Witness ==
    /\ ~remote.endless
    /\ fetch.state = "returned"
    /\ fetch.calls = 3
    /\ Len(remote.pages[1]) = 2
    /\ Len(remote.pages[2]) = 0
    /\ Len(remote.pages[3]) = 1

-----------------------------------------------------------------------------
(* The catalog fetch against a remote that never stops returning a cursor  *)

\* the page cap the design asks of a defensive fetch
PageCap == 10000

OverflowRemotes ==
    {[pages |-> <<p, <<>>>>, endless |-> TRUE] : p \in FetchPages}

InitOverflow ==
    /\ chat = ChatIdle
    /\ streaming = StreamIdle
    /\ RequestIdle
    /\ remote \in OverflowRemotes
    /\ fetch = FetchStart
    /\ route = RouteIdle
    /\ decode = DecodeIdle

OverflowStep ==
    /\ get_full_tools_list(PageCap + 1)
    /\ UNCHANGED <<requestVars, remote, route, decode, chat, streaming>>

NextOverflow == OverflowStep

SpecOverflow == InitOverflow /\ [][NextOverflow]_vars

\* C4: the fetch is capped: it never makes more than PageCap (10,000)
\* listing calls, whatever the remote returns.
C4_FetchIsCapped == fetch.calls <= PageCap

-----------------------------------------------------------------------------
(* The keyword routing on its own: every catalog of up to MaxCatalog tools *)
(* routed by two keywords                                                  *)

Keywords ==
    {KwSlack, KwTavily, KwExtract, <<"S","L","A","C","K">>, <<"a">>,
     <<"z","z">>, <<>>}

InitRoute ==
    /\ chat = ChatIdle
    /\ streaming = StreamIdle
    /\ RequestIdle
    /\ remote = [pages |-> <<<<>>>>, endless |-> FALSE]
    /\ fetch = FetchIdle
    /\ decode = DecodeIdle
    /\ \E c \in SeqsUpTo(AllTools, MaxCatalog), a \in Keywords, b \in Keywords :
          route = [RouteIdle EXCEPT !.catalog = c, !.k1 = a, !.k2 = b]

RouteStep ==
    /\ ~route.done
    /\ route' = [route EXCEPT
                    !.done = TRUE,
                    !.out1 = _filter_tools_by_keyword(route.catalog, route.k1),
                    !.out2 = _filter_tools_by_keyword(route.catalog, route.k2)]
    /\ UNCHANGED <<requestVars, fetch, remote, decode, chat, streaming>>

NextRoute == RouteStep

SpecRoute == InitRoute /\ [][NextRoute]_vars

\* C7: routing returns exactly the tools whose name contains the keyword
\* case-insensitively, each once and in catalog order; and for two keywords
\* whose matches do not overlap, the two routed subsets and the unmatched
\* remainder together hold every tool of the catalog exactly as often as the
\* catalog does.
C7_RoutingExact ==
    route.done =>
        LET P1 == MatchPositions(route.catalog, route.k1)
            P2 == MatchPositions(route.catalog, route.k2)
            rest == (1..Len(route.catalog)) \ (P1 \cup P2)
        IN  /\ IsSelection(route.out1, route.catalog, P1)
            /\ IsSelection(route.out2, route.catalog, P2)
            /\ (P1 \cap P2 = {}) =>
                  \A t \in AllTools :
                      Count(route.out1, t) + Count(route.out2, t)
                        + Cardinality({i \in rest : route.catalog[i] = t})
                      = Count(route.catalog, t)

\* a catalog routed by two disjoint keywords, one of them matching a name
\* written with a capital letter, with a tool left unmatched
C7_Witness ==
    /\ route.done
    /\ route.catalog = <<PlainTool, SlackTool, TavilyTool>>
    /\ route.k1 = KwSlack
    /\ route.k2 = KwTavily
    /\ route.out1 = <<SlackTool>>
    /\ route.out2 = <<TavilyTool>>

-----------------------------------------------------------------------------
(* The response decoder on its own: responses that carry what a request    *)
(* yields (Reports and error objects) and other JSON values, as one JSON   *)
(* document, as lines of an event stream, and as text that is not JSON     *)

\* two finished runs, as the executor leaves them
RunBothCompleted ==
    Finished([status |-> "completed",
     node |-> [n \in NodeSet |-> IF n = "block_agent" THEN "skipped" ELSE "completed"],
     queue |-> <<>>,
     results |-> << NodeResult("slack_agent", "completed",
                               Returned(<<ResultText, ResultNested>>, 1500, 42), NoExc),
                    NodeResult("tavily_agent", "completed",
                               Returned(<<ResultNested>>, 700, 21), NoExc) >>,
     started |-> <<"slack_agent", "tavily_agent">>])

RunEntryFailed ==
    Finished([status |-> "failed",
     node |-> [n \in NodeSet |-> IF n = "slack_agent" THEN "failed" ELSE "skipped"],
     queue |-> <<>>,
     results |-> << NodeResult("slack_agent", "failed", FailedReturn,
                               Exc("Exception", <<"b","o","o","m">>)) >>,
     started |-> <<"slack_agent">>])

SampleReports ==
    { Aggregate(RunBothCompleted, JObj(<< <<K_prompt, JStr(T_go)>> >>)),
      Aggregate(RunEntryFailed, JObj(<< <<K_prompt, JStr(T_go)>>,
                                        <<K_sessionId, JStr(<<"s","1">>)>> >>)) }

T_hello == <<"h","e","l","l","o",Space,"w","o","r","l","d">>

SampleValues ==
    SampleReports \cup
    { ErrorDict(<<"b","o","o","m">>),
      JObj(<< <<K_agents, JArr(<<>>)>>, <<K_error, JStr(<<"b","a","d">>)>> >>),
      GraphErrorMessage(Exc("Exception", <<"b","o","o","m">>)),
      OuterErrorMessage(Exc("Exception", <<"M","C","P",Space,"d","o","w","n">>)),
      JObj(<< <<K_error, JObj(<< <<<<"c">>, JNum(<<"5">>)>> >>)>> >>),
      JObj(<< <<<<"k">>, JStr(<<"v">>)>> >>),
      JObj(<<>>),
      JArr(<< JStr(<<"a">>), JNum(<<"1">>) >>),
      JArr(<<>>),
      JStr(T_hello),
      JStr(<<>>),
      JStr(Dumps(ErrorDict(<<"b","o","o","m">>))),
      JNum(<<"1","2">>),
      JBool(TRUE) }

\* an integer of one digit more than int() converts
LongInteger == SubSeq([i \in 1..(MaxIntDigits + 1) |-> "1"], 1, MaxIntDigits + 1)

RawTexts ==
    { <<>>, T_hello, <<Space, Space>>, <<Newline>>,
      <<"{", "o", "o", "p", "s">>, DataPrefix, <<"d","a","t","a",":">>,
      <<"{", "}", Space, "{", "}">>, <<"[", "1", ",", "]">>, LongInteger }

\* the ways a value reaches the decoder
Framed(value, how) ==
    IF how = 1 THEN Dumps(value)
    ELSE IF how = 2 THEN <<Space>> \o Dumps(value) \o <<Newline>>
    ELSE IF how = 3 THEN DataPrefix \o Dumps(value)
    ELSE IF how = 4 THEN DataPrefix \o Dumps(value) \o <<Newline, Newline>>
                           \o DataPrefix \o Dumps(ErrorDict(<<"b","o","o","m">>))
    ELSE IF how = 5 THEN T_hello \o <<Newline>> \o Dumps(value)
    ELSE Dumps(value) \o <<Newline>> \o Dumps(JObj(<< <<<<"k">>, JStr(<<"v">>)>> >>))

Framings == 1..6

Bytes(text) == [kind |-> "bytes", data |-> text]

InitDecode ==
    /\ chat = ChatIdle
    /\ streaming = StreamIdle
    /\ RequestIdle
    /\ remote = [pages |-> <<<<>>>>, endless |-> FALSE]
    /\ fetch = FetchIdle
    /\ route = RouteIdle
    /\ \/ \E value \in SampleValues, how \in Framings :
             decode = [DecodeIdle EXCEPT
                          !.input = Bytes(Framed(value, how)),
                          !.encoded = IF how = 1 THEN value ELSE JNull]
       \/ \E text \in RawTexts :
             \/ decode = [DecodeIdle EXCEPT !.input = Bytes(text)]
             \/ decode = [DecodeIdle EXCEPT !.input = Bytes(text \o <<BadByte>>)]
             \/ decode = [DecodeIdle EXCEPT
                             !.input = [kind |-> "str", data |-> text]]
       \/ decode = [DecodeIdle EXCEPT
                       !.input = [kind |-> "raises", data |-> <<"b","o","o","m">>]]

DecodeStep ==
    /\ ~decode.done
    /\ decode' = [decode EXCEPT !.done = TRUE,
                                !.out = process_agent_response(decode.input)]
    /\ UNCHANGED <<requestVars, fetch, remote, route, chat, streaming>>

NextDecode == DecodeStep

SpecDecode == InitDecode /\ [][NextDecode]_vars

\* the response can be read and decoded as text
Readable(input) ==
    /\ input.kind # "raises"
    /\ \A i \in 1..Len(input.data) : input.data[i] # BadByte

\* C10: a zero-length input decodes to empty; an input that is one JSON
\* document decodes, first match winning, to error with the message when
\* the document is an object with the key error (whatever other keys it
\* has), to structured with the parsed value when it is any other object
\* or an array, to text with the string when it is a bare string; and the
\* single-JSON encoding of a Report decodes to structured with the Report.
C10_WholeDocumentDecoding ==
    (decode.done /\ Readable(decode.input)) =>
        LET text == decode.input.data
            doc == Loads(text)
        IN  /\ text = <<>> => decode.out.type = "empty"
            /\ (text # <<>> /\ doc.ok) =>
                  /\ (doc.val[1] = "obj" /\ HasKey(doc.val, K_error)) =>
                        decode.out = [type |-> "error",
                                      message |-> Get(doc.val, K_error)]
                  /\ (doc.val[1] = "obj" /\ ~HasKey(doc.val, K_error)) =>
                        decode.out = [type |-> "structured", data |-> doc.val]
                  /\ doc.val[1] = "arr" =>
                        decode.out = [type |-> "structured", data |-> doc.val]
                  /\ doc.val[1] = "str" =>
                        decode.out = [type |-> "text", message |-> doc.val]
            /\ decode.encoded \in SampleReports =>
                  /\ text = Dumps(decode.encoded)
                  /\ decode.out = [type |-> "structured", data |-> decode.encoded]

\* the encoding of the Report of a completed run, whose full_text holds the
\* texts of two nodes, has been decoded
C10_Witness ==
    /\ decode.done
    /\ decode.encoded = Aggregate(RunBothCompleted, JObj(<< <<K_prompt, JStr(T_go)>> >>))
    /\ decode.input.data = Dumps(decode.encoded)
    /\ decode.out.type = "structured"
    /\ Contains(Get(decode.out.data, K_full_text)[2], <<Newline, Newline>>)

-----------------------------------------------------------------------------
(* The decoder on input that is not one JSON document                      *)

\* the positions of the lines that are not blank and parse as JSON
ParsingLines(lines) ==
    {i \in 1..Len(lines) : Strip(lines[i]) # <<>> /\ Loads(LineBody(lines[i])).ok}

\* the value of the first line that parses
FirstParsed(lines) ==
    Loads(LineBody(lines[CHOOSE i \in ParsingLines(lines) :
                            \A j \in ParsingLines(lines) : i <= j])).val

\* the input is text, is not empty and is not one JSON document
NotOneDocument(input) ==
    /\ Readable(input)
    /\ input.data # <<>>
    /\ ~Loads(input.data).ok

\* C11: when the whole input is not one JSON document, the first line that
\* is not blank and parses as JSON (after its optional "data: " prefix is
\* removed) decides the result by the rules of a whole document: an object
\* with the key error gives error with its message, any other object and
\* any array give structured with that value, a bare string gives text; the
\* lines after it are not looked at.
C11_FirstParsedLineDecides ==
    (decode.done /\ NotOneDocument(decode.input)
       /\ ParsingLines(SplitLines(decode.input.data)) # {}) =>
        LET first == FirstParsed(SplitLines(decode.input.data))
        IN  /\ (first[1] = "obj" /\ HasKey(first, K_error)) =>
                  decode.out = [type |-> "error", message |-> Get(first, K_error)]
            /\ (first[1] = "obj" /\ ~HasKey(first, K_error)) =>
                  decode.out = [type |-> "structured", data |-> first]
            /\ first[1] = "arr" =>
                  decode.out = [type |-> "structured", data |-> first]
            /\ first[1] = "str" =>
                  decode.out = [type |-> "text", message |-> first]

\* the input cannot be parsed: its bytes are not text, or neither the whole
\* of it nor any of its lines parses as JSON
Unparseable(input) ==
    /\ input.kind # "raises"
    /\ input.data # <<>>
    /\ \/ ~Readable(input)
       \/ /\ ~Loads(input.data).ok
          /\ ParsingLines(SplitLines(input.data)) = {}

\* C12: a non-empty input that cannot be parsed decodes to a text result,
\* never to an error result, and when the input is text the message is the
\* entire raw input.
C12_UnparseableIsText ==
    (decode.done /\ Unparseable(decode.input)) =>
        /\ decode.out.type = "text"
        /\ Readable(decode.input) => decode.out.message = JStr(decode.input.data)

-----------------------------------------------------------------------------
(* The prompt resolution on its own: payloads with every kind of input     *)
(* field and of top-level prompt field                                     *)

\* the values a prompt field may hold
PromptValues == {JStr(T_go), JStr(<<>>), JNum(<<"7">>), JNull}

\* the values an input field may hold: objects, strings that are the JSON
\* encoding of a value, strings that are not JSON, and other values
InputValues ==
    {JObj(<< <<K_prompt, v>> >>) : v \in PromptValues}
    \cup {JStr(Dumps(JObj(<< <<K_prompt, v>> >>))) : v \in PromptValues}
    \cup { JObj(<<>>),
           JObj(<< <<K_session_id, JStr(<<"s">>)>> >>),
           JStr(Dumps(JObj(<<>>))),
           JStr(Dumps(JObj(<< <<K_session_id, JStr(<<"s">>)>> >>))),
           JStr(Dumps(JArr(<<JNum(<<"1">>)>>))),
           JStr(Dumps(JStr(T_go))),
           JStr(T_go),
           JStr(<<"{", "o">>),
           JStr(<<>>),
           JNum(<<"7">>),
           JArr(<<JStr(T_go)>>),
           JNull }

\* the members of a payload beside its input field
TopLevels ==
    {<<>>} \cup {<< <<K_prompt, v>> >> : v \in PromptValues}
    \cup {<< <<K_sessionId, JStr(<<"s","1">>)>>, <<K_prompt, JStr(T_hello)>> >>}

PromptPayloads ==
    {JNull}
    \cup {JObj(top) : top \in TopLevels}
    \cup {JObj(<< <<K_input, i>> >> \o top) : i \in InputValues, top \in TopLevels}

InitPrompt ==
    /\ chat = ChatIdle
    /\ streaming = StreamIdle
    /\ pc = "parse"
    /\ env = [GATEWAY_URL |-> "unset", COGNITO_SCOPE |-> "unset"]
    /\ payload \in PromptPayloads
    /\ user_message = JStr(<<>>)
    /\ mcp = McpUnopened
    /\ exc = NoExc
    /\ agents = <<>>
    /\ graph = GraphUnbuilt
    /\ structured_response = NoReport
    /\ yielded = <<>>
    /\ remote = [pages |-> <<<<>>>>, endless |-> FALSE]
    /\ fetch = FetchIdle
    /\ route = RouteIdle
    /\ decode = DecodeIdle

\* line 374:  user_message = parse_prompt_from_payload(payload)
PromptStep ==
    /\ pc = "parse"
    /\ user_message' = parse_prompt_from_payload(payload)
    /\ pc' = "parsed"
    /\ UNCHANGED <<env, payload, mcp, exc, agents, graph,
                   structured_response, yielded, fetch, remote, route, decode, chat, streaming>>

NextPrompt == PromptStep

SpecPrompt == InitPrompt /\ [][NextPrompt]_vars

\* the payload has the field
Present(p, key) == p[1] = "obj" /\ HasKey(p, key)

\* the string is the JSON encoding of an object whose prompt is a string
DecodesToPrompt(s) ==
    /\ Loads(s).ok
    /\ Loads(s).val[1] = "obj"
    /\ HasKey(Loads(s).val, K_prompt)
    /\ Get(Loads(s).val, K_prompt)[1] = "str"

\* C13: the resolved prompt is always a string, the prompt or the empty
\* string.  With an input field present: an object input gives its prompt
\* field (the empty string if it has none); a string input gives the prompt
\* of its JSON decoding, or the whole string when it does not decode to an
\* object with a readable prompt; and the top-level prompt field is not
\* read.  With no input field, the top-level prompt field is the result, or
\* the empty string when there is none.
C13_PromptResolution ==
    pc = "parsed" =>
        /\ user_message[1] = "str"
        /\ Present(payload, K_input) =>
              LET input_data == Get(payload, K_input)
              IN  /\ (input_data[1] = "obj" /\ HasKey(input_data, K_prompt)) =>
                        user_message = Get(input_data, K_prompt)
                  /\ (input_data[1] = "obj" /\ ~HasKey(input_data, K_prompt)) =>
                        user_message = JStr(<<>>)
                  /\ (input_data[1] = "str" /\ DecodesToPrompt(input_data[2])) =>
                        user_message = Get(Loads(input_data[2]).val, K_prompt)
                  /\ (input_data[1] = "str" /\ ~DecodesToPrompt(input_data[2])) =>
                        user_message = input_data
                  /\ input_data[1] \notin {"obj", "str"} =>
                        user_message = JStr(<<>>)
        /\ (~Present(payload, K_input) /\ Present(payload, K_prompt)) =>
              user_message[2] = PyStr(Get(payload, K_prompt))
        /\ (~Present(payload, K_input) /\ ~Present(payload, K_prompt)) =>
              user_message = JStr(<<>>)

-----------------------------------------------------------------------------
(* Setup errors and mid-run errors of one request *)

\* both required settings are configured: the variable is set and not empty
Configured(e) == e.GATEWAY_URL = "set" /\ e.COGNITO_SCOPE = "set"

\* the request has gone past its setup: the token was acquired and the
\* client created, the session entered, a listing call made or a node started
WorkDone ==
    \/ pc \notin {"start", "prompt", "token", "done"}
    \/ mcp # McpUnopened
    \/ fetch.calls > 0
    \/ graph.started # <<>>

\* the prompt of the payload has been resolved
PromptResolved == pc \notin {"start", "prompt"} \/ yielded # <<>>

\* C14: a request whose gateway URL or authentication scope is not
\* configured, or whose resolved prompt is missing or empty, does no work
\* beyond its setup (no token, no session, no listing, no node), and ends
\* having yielded exactly one message, a structured error object.
C14_SetupErrorStopsRequest ==
    (\/ ~Configured(env)
     \/ PromptResolved /\ ResearchAgentInit(env).ok /\ Falsy(parse_prompt_from_payload(payload))) =>
        /\ ~WorkDone
        /\ pc = "done" => (Len(yielded) = 1 /\ IsErrorMessage(yielded[1]))


\* the text of an error object
ErrorText(m) == Get(m, K_error)[2]

\* the annotation each category puts before the message
CategoryPrefix(c) ==
    IF c = "connectivity" THEN <<"(MCP connection error): ">>
    ELSE IF c = "capability" THEN <<"(tool execution error): ">>
    ELSE <<"(an error occurred while processing the request): ">>

ErrorCategories == {"connectivity", "capability", "generic"}

\* the categories an error object is annotated with
CategoriesOf(m) ==
    {c \in ErrorCategories :
        Get(m, K_error)[1] = "str" /\ StartsWith(ErrorText(m), CategoryPrefix(c))}

\* the error objects of the setup: configuration and prompt
IsSetupError(m) ==
    \/ m = PromptErrorMessage
    \/ \E e \in [GATEWAY_URL : EnvValues, COGNITO_SCOPE : EnvValues] :
          m = ConfigErrorMessage(ResearchAgentInit(e).msg)

\* the setup of the request succeeded
SetupPassed ==
    /\ ResearchAgentInit(env).ok
    /\ ~Falsy(parse_prompt_from_payload(payload))

\* C15: every error object yielded for a failure after the setup is
\* annotated with exactly one of the categories connectivity, capability
\* and generic, and a request that ended after its setup without a Report
\* has yielded such an error object.
C15_MidRunErrorsCategorised ==
    /\ \A i \in 1..Len(yielded) :
          (IsErrorMessage(yielded[i]) /\ ~IsSetupError(yielded[i])) =>
              Cardinality(CategoriesOf(yielded[i])) = 1
    /\ (pc = "done" /\ SetupPassed /\ structured_response = NoReport) =>
          \E i \in 1..Len(yielded) :
              IsErrorMessage(yielded[i]) /\ Cardinality(CategoriesOf(yielded[i])) = 1

-----------------------------------------------------------------------------
(* The Report against the content trees of the agent results *)

\* the blocks of a content, of a tool result and of an agent result (those
\* that are dicts)
Blocks(content) == IF Iterable(content) THEN SelectSeq(Iterated(content), IsDict) ELSE <<>>

ToolBlocks(block) ==
    IF IsDict(Get(block, K_toolResult)) THEN Blocks(InnerContent(block)) ELSE <<>>

ResultBlocks(agent_result) ==
    IF IsDict(MessageOf(agent_result)) THEN Blocks(ContentOf(MessageOf(agent_result)))
    ELSE <<>>

\* every text block of a content tree, tool results entered at every depth,
\* in arrival order
RECURSIVE TreeTexts(_)
TreeTexts(content) ==
    IF content = <<>> THEN <<>>
    ELSE (IF HasKey(Head(content), K_text) THEN <<Get(Head(content), K_text)[2]>> ELSE <<>>)
         \o (IF HasKey(Head(content), K_toolResult)
             THEN TreeTexts(ToolBlocks(Head(content))) ELSE <<>>)
         \o TreeTexts(Tail(content))

\* every structured block of a content tree, in arrival order
RECURSIVE TreeJsons(_)
TreeJsons(content) ==
    IF content = <<>> THEN <<>>
    ELSE (IF HasKey(Head(content), K_json) THEN <<Get(Head(content), K_json)>> ELSE <<>>)
         \o (IF HasKey(Head(content), K_toolResult)
             THEN TreeJsons(ToolBlocks(Head(content))) ELSE <<>>)
         \o TreeJsons(Tail(content))

\* the nesting depth of tool results in a content tree
RECURSIVE TreeDepth(_)
TreeDepth(content) ==
    IF content = <<>> THEN 0
    ELSE LET here == IF HasKey(Head(content), K_toolResult)
                     THEN 1 + TreeDepth(ToolBlocks(Head(content))) ELSE 0
             rest == TreeDepth(Tail(content))
         IN  IF here > rest THEN here ELSE rest

\* the messages a node's agent results give its entry of the Report when
\* every block of their content trees is kept: for each agent result a text
\* message if the trimmed newline-join of its text blocks is not empty, then
\* a json message if it has structured blocks
RECURSIVE TreeMessages(_)
TreeMessages(agent_results) ==
    IF agent_results = <<>> THEN <<>>
    ELSE LET content == ResultBlocks(Head(agent_results))
             text == Strip(Join(TreeTexts(content), <<Newline>>))
         IN  (IF text # <<>>
              THEN << JObj(<< <<K_type, JStr(<<"t","e","x","t">>)>>,
                              <<K_content, JStr(text)>> >>) >>
              ELSE <<>>)
             \o (IF TreeJsons(content) # <<>>
                 THEN << JObj(<< <<K_type, JStr(<<"j","s","o","n">>)>>,
                                 <<K_content, JArr(TreeJsons(content))>> >>) >>
                 ELSE <<>>)
             \o TreeMessages(Tail(agent_results))

\* the tool results of a node's agent results nest no deeper than 3
WithinDepth(agent_results) ==
    \A j \in 1..Len(agent_results) :
        TreeDepth(ResultBlocks(agent_results[j])) <= 3

\* the entry of the Report for the i-th node result
ReportAgent(i) == Get(structured_response, K_agents)[2][i]

\* C17: flattening an agent result whose tool results nest no deeper than 3
\* puts every text block of its content tree in the text bucket and every
\* structured block in the structured bucket, in arrival order, whatever
\* the depth they stand at: in the Report, the messages of every node hold
\* the trimmed newline-join of all the text blocks and the list of all the
\* structured blocks of each of its agent results.
C17_NestedBlocksKept ==
    structured_response # NoReport =>
        \A i \in 1..Len(graph.results) :
            WithinDepth(graph.results[i].agent_results) =>
                Get(ReportAgent(i), K_messages)
                  = JArr(TreeMessages(graph.results[i].agent_results))

-----------------------------------------------------------------------------
(* The full_text of the Report against the texts of the agent results *)

\* the text the flattening gives for the j-th agent result of the i-th
\* node result
TextOf(ij) ==
    extract_message_content(graph.results[ij[1]].agent_results[ij[2]]).text

\* the agent invocations that produced text that is not empty once trimmed
Produced ==
    UNION {{<<i, j>> : j \in {k \in 1..Len(graph.results[i].agent_results) :
                                 TextOf(<<i, k>>) # <<>>}} :
           i \in 1..Len(graph.results)}

\* completion order of the nodes, then order of the invocations in a node
Before(a, b) == a[1] < b[1] \/ (a[1] = b[1] /\ a[2] < b[2])

\* the labelled entry of the k-th of the invocations that produced text
EntryAt(produced, k) ==
    LET ij == CHOOSE x \in produced :
                  Cardinality({y \in produced : Before(y, x)}) = k - 1
    IN  <<"[", graph.results[ij[1]].node, "]", Space>> \o TextOf(ij)

\* the labelled entries, in order
Entries(produced) ==
    SubSeq([k \in 1..Cardinality(produced) |-> EntryAt(produced, k)],
           1, Cardinality(produced))

\* the number of characters that stand before the k-th entry when the
\* entries are separated by two newlines
RECURSIVE OffsetOf(_, _)
OffsetOf(entries, k) ==
    IF k = 1 THEN 0 ELSE OffsetOf(entries, k - 1) + Len(entries[k - 1]) + 2

\* the text is the entries, each at its offset, with two newlines before
\* every entry but the first, and nothing else
JoinedEntries(full, entries) ==
    /\ Len(full) = OffsetOf(entries, Len(entries)) + Len(entries[Len(entries)])
    /\ \A k \in 1..Len(entries) :
          SubSeq(full, OffsetOf(entries, k) + 1, OffsetOf(entries, k) + Len(entries[k]))
            = entries[k]
    /\ \A k \in 2..Len(entries) :
          /\ full[OffsetOf(entries, k) - 1] = Newline
          /\ full[OffsetOf(entries, k)] = Newline

\* C16: the full_text of the Report holds, in node-completion order, one
\* entry labelled with the node's name for every agent invocation that
\* produced text that is not empty once trimmed, the entries separated by
\* newlines (a blank line: two newline characters) and nothing else; it is
\* never the empty string, and it is the fixed no-content sentinel exactly
\* when no invocation produced text.
C16_FullTextJoinsNodeTexts ==
    structured_response # NoReport =>
        LET full == Get(structured_response, K_full_text)[2]
            entries == Entries(Produced)
        IN  /\ full # <<>>
            /\ (entries = <<>>) <=> (full = NoContentSentinel)
            /\ entries # <<>> => JoinedEntries(full, entries)

\* the Report of a run whose first node made two invocations and whose
\* second node made one, all three with text
C16_Witness ==
    /\ pc = "done"
    /\ structured_response # NoReport
    /\ Len(graph.results) = 2
    /\ Produced = {<<1, 1>>, <<1, 2>>, <<2, 1>>}
    /\ Get(structured_response, K_full_text)[2] # NoContentSentinel

-----------------------------------------------------------------------------
(* The order of the node executions of one run *)

Running == {n \in NodeSet : graph.node[n] = "running"}

\* C18: the nodes of a run execute one at a time: never two nodes are
\* running, no node is started twice, a node that is the target of an edge
\* has started only if the source of that edge has completed (the
\* web-summarization node never before the Slack node has completed), and
\* the nodes have started in the order of the chain of edges from the
\* entry node.
C18_NodesRunInSequence ==
    /\ Cardinality(Running) <= 1
    /\ \A i, j \in 1..Len(graph.started) :
          i # j => graph.started[i] # graph.started[j]
    /\ \A k \in 1..Len(GraphEdges) :
          Started(GraphEdges[k].to) => graph.node[GraphEdges[k].from] = "completed"
    /\ Started("tavily_agent") => graph.node["slack_agent"] = "completed"
    /\ graph.started \in {<<>>, <<"slack_agent">>, <<"slack_agent", "tavily_agent">>}
    /\ \A n \in Running : graph.started[Len(graph.started)] = n

\* the web-summarization node is running, after the Slack node completed
C18_Witness ==
    /\ pc = "invoke"
    /\ graph.node["slack_agent"] = "completed"
    /\ graph.node["tavily_agent"] = "running"
    /\ graph.node["block_agent"] = "pending"
    /\ Len(graph.results) = 1

\* C19: a request yields exactly one message in total: never more than one
\* while it runs, one when it has ended, and no error object after the
\* Report, also when the release of the session fails after the Report was
\* yielded.
C19_ExactlyOneMessage ==
    /\ Len(yielded) <= 1
    /\ pc = "done" => Len(yielded) = 1
    /\ \A i \in 1..Len(yielded) : IsReportMessage(yielded[i]) => i = Len(yielded)

-----------------------------------------------------------------------------
(* The chat page (src/frontend_app.py): format_structured_response and the *)
(* handler of a submitted prompt in render_chat_interface.  The Japanese   *)
(* and pictograph literals of the source are one element each, in          *)
(* translation, and so is the code fence of three backquotes.              *)

\* chat turns one history is followed for
MaxTurns == 2

\* data.get(key)  used as a condition
Truthy(obj, key) == HasKey(obj, key) /\ ~Falsy(Get(obj, key))

\* the indentation of json.dumps(..., indent=2) at a nesting level
Pad(level) == [i \in 1..(2 * level) |-> Space]

\* json.dumps(value, ensure_ascii=False, indent=2)
RECURSIVE DumpsIndent(_, _)
DumpsIndent(value, level) ==
    CASE value[1] = "arr" /\ value[2] # <<>> ->
            <<"[", Newline>>
            \o Join([i \in 1..Len(value[2]) |->
                        Pad(level + 1) \o DumpsIndent(value[2][i], level + 1)],
                    <<",", Newline>>)
            \o <<Newline>> \o Pad(level) \o <<"]">>
      [] value[1] = "obj" /\ value[2] # <<>> ->
            <<"{", Newline>>
            \o Join([i \in 1..Len(value[2]) |->
                        Pad(level + 1) \o DumpsStr(value[2][i][1]) \o <<":", Space>>
                          \o DumpsIndent(value[2][i][2], level + 1)],
                    <<",", Newline>>)
            \o <<Newline>> \o Pad(level) \o <<"}">>
      [] OTHER -> Dumps(value)

\* lines 174-176: the status line
StatusHeader(data) ==
    IF DictGet(data, K_status, JNull) = JStr(<<"c","o","m","p","l","e","t","e","d">>)
    THEN <<"### (ok) (processing completed)">>
    ELSE <<"### (failed) (processing failed)">>

\* type(value).__name__
IsFloatText(t) == \E i \in 1..Len(t) : t[i] \in {".", "e", "n"}

PyTypeName(value) ==
    CASE value[1] = "str" -> <<"s","t","r">>
      [] value[1] = "num" ->
            (IF IsFloatText(value[2]) THEN <<"f","l","o","a","t">> ELSE <<"i","n","t">>)
      [] value[1] = "bool" -> <<"b","o","o","l">>
      [] value[1] = "null" -> <<"N","o","n","e","T","y","p","e">>
      [] value[1] = "arr" -> <<"l","i","s","t">>
      [] value[1] = "obj" -> <<"d","i","c","t">>

\* a number as its sign, its digits and the number of digits before the
\* point:  -12.5 is (TRUE, 125, 2),  1e-07 is (FALSE, 1, -6)
Decimal(neg, digits, point) == [neg |-> neg, digits |-> digits, point |-> point]

\* the position of the character in the text, 0 if it is not there
IndexOf(t, c) ==
    IF \E i \in 1..Len(t) : t[i] = c
    THEN CHOOSE i \in 1..Len(t) : t[i] = c /\ \A j \in 1..(i - 1) : t[j] # c
    ELSE 0

\* the mantissa of a repr (to its e, if it has one) and its exponent
MantissaOf(t) == IF IndexOf(t, "e") = 0 THEN t ELSE SubSeq(t, 1, IndexOf(t, "e") - 1)

ExponentOf(t) ==
    IF IndexOf(t, "e") = 0 THEN 0
    ELSE IF t[IndexOf(t, "e") + 1] = "-"
    THEN 0 - NatOf(SubSeq(t, IndexOf(t, "e") + 2, Len(t)))
    ELSE NatOf(SubSeq(t, IndexOf(t, "e") + 2, Len(t)))

\* the digits of an unsigned mantissa and the digits before its point
MantissaDigits(m) ==
    IF IndexOf(m, ".") = 0 THEN m
    ELSE SubSeq(m, 1, IndexOf(m, ".") - 1) \o SubSeq(m, IndexOf(m, ".") + 1, Len(m))

MantissaPoint(m) == IF IndexOf(m, ".") = 0 THEN Len(m) ELSE IndexOf(m, ".") - 1

UnsignedDecimal(neg, t) ==
    Decimal(neg, MantissaDigits(MantissaOf(t)),
            MantissaPoint(MantissaOf(t)) + ExponentOf(t))

\* the decimal a finite number's repr writes
DecimalOf(t) ==
    IF t[1] = "-" THEN UnsignedDecimal(TRUE, Tail(t)) ELSE UnsignedDecimal(FALSE, t)

\* the digits of the repr without its leading zeros, and the power of ten
\* of the first of them
ValueDigits(x) == StripZeros(DigitsOf(x.digits))
ValueScale(x) == x.point - 1 - (Len(x.digits) - Len(ValueDigits(x)))

\* d with zeros before it up to n digits
Padded(d, n) == IF Len(d) >= n THEN d ELSE ZeroDigits(n - Len(d)) \o d

\* the digits of the double, and the power of ten of the first of them
ExactDigits(v) == Expanded(v.m, v.e)
ExactScale(v) == Len(ExactDigits(v)) - 1 - Decimals(v.e)

\* a double divided by 1000: the quotient of the value it has, rounded
DividedDouble(v) ==
    IF v.kind = "finite" THEN DoubleOf(ExactDigits(v), ExactScale(v) - 3) ELSE v

\* value / 1000 of a number that is not negative: an int is divided as the
\* whole number it is, a float as the double its repr is read as
Thousandth(x, isFloat) ==
    IF ValueDigits(x) = <<>> THEN FloatZero
    ELSE IF isFloat THEN DividedDouble(DoubleOf(ValueDigits(x), ValueScale(x)))
    ELSE DoubleOf(ValueDigits(x), ValueScale(x) - 3)

\* the digits p, of which the last f are decimals (f > 2), rounded to two
\* decimals: to the nearest, a tie to the even digit
HundredthsUp(p, f) ==
    \/ p[Len(p) - f + 3] > 5
    \/ /\ p[Len(p) - f + 3] = 5
       /\ \/ \E i \in (Len(p) - f + 4)..Len(p) : p[i] # 0
          \/ p[Len(p) - f + 2] % 2 = 1

RoundedHundredths(p, f) ==
    IF HundredthsUp(p, f) THEN PlusOne(SubSeq(p, 1, Len(p) - f + 2))
    ELSE SubSeq(p, 1, Len(p) - f + 2)

\* the hundredths of the number with the digits d, the last f of them
\* decimals
Hundredths(d, f) ==
    IF f <= 2 THEN d \o ZeroDigits(2 - f)
    ELSE RoundedHundredths(Padded(d, f + 1), f)

\* hundredths written with two decimals: at least three digits, no
\* leading zero before the units
PadHundredths(h) == DigitChars(Padded(StripZeros(h), 3))

TwoDecimals(p) == SubSeq(p, 1, Len(p) - 2) \o <<".">> \o SubSeq(p, Len(p) - 1, Len(p))

\* f"{v:.2f}" of a double that is not negative
FixedOfDouble(v) ==
    IF v.kind = "inf" THEN T_inf
    ELSE IF v.kind = "zero" THEN <<"0", ".", "0", "0">>
    ELSE TwoDecimals(PadHundredths(Hundredths(ExactDigits(v), Decimals(v.e))))

FixedOfDecimal(x, isFloat) ==
    (IF x.neg THEN <<"-">> ELSE <<>>) \o FixedOfDouble(Thousandth(x, isFloat))

\* f"{value / 1000:.2f}" of a number or a bool
FormatSeconds(value) ==
    IF value[1] = "bool" THEN <<"0", ".", "0", "0">>
    ELSE IF value[2] \in {T_nan, T_inf, T_neginf} THEN value[2]
    ELSE FixedOfDecimal(DecimalOf(value[2]), IsFloatText(value[2]))

\* digits with a comma before every group of three: the digits before the
\* first comma, then groups of a comma and three digits
FirstGroup(d) == Len(d) - 3 * ((Len(d) - 1) \div 3)

GroupDigits(d) ==
    [k \in 1..(Len(d) + (Len(d) - 1) \div 3) |->
        IF k <= FirstGroup(d) THEN d[k]
        ELSE IF (k - FirstGroup(d) - 1) % 4 = 0 THEN ","
        ELSE d[FirstGroup(d) + 3 * ((k - FirstGroup(d) - 1) \div 4)
                 + ((k - FirstGroup(d) - 1) % 4)]]

GroupUnsigned(t) ==
    IF IndexOf(t, ".") = 0 THEN GroupDigits(t)
    ELSE GroupDigits(SubSeq(t, 1, IndexOf(t, ".") - 1)) \o SubSeq(t, IndexOf(t, "."), Len(t))

\* f"{value:,}" of a number or a bool
FormatGrouped(value) ==
    IF value[1] = "bool" THEN <<"1">>
    ELSE IF \E i \in 1..Len(value[2]) : value[2][i] \in {"e", "n"} THEN value[2]
    ELSE IF value[2][1] = "-" THEN <<"-">> \o GroupUnsigned(Tail(value[2]))
    ELSE GroupUnsigned(value[2])

\* lines 179-191: the parts of the statistics line
StatsParts(data) ==
    (IF Truthy(data, K_total_execution_time_ms)
     THEN << <<"(stopwatch) ">> \o FormatSeconds(Get(data, K_total_execution_time_ms))
               \o <<"(seconds)">> >>
     ELSE <<>>)
    \o (IF Truthy(data, K_total_tokens)
        THEN << <<"(target) ">> \o FormatGrouped(Get(data, K_total_tokens))
                  \o <<"(tokens)">> >>
        ELSE <<>>)
    \o (IF Truthy(data, K_mcp_tools_used) THEN << <<"(MCP tools used)">> >> ELSE <<>>)

\* lines 179-191: the statistics line
StatsLines(data) ==
    IF StatsParts(data) = <<>> THEN <<>>
    ELSE << <<"*">> \o Join(StatsParts(data), <<Space, "|", Space>>) \o <<"*">> >>

\* "\n---\n"
RuleLine == <<Newline, "-", "-", "-", Newline>>

\* lines 201-205: the display name of a node
DisplayName(agent_name) ==
    IF agent_name = <<"slack_agent">> THEN <<"(Slack agent)">>
    ELSE IF agent_name = <<"tavily_agent">> THEN <<"(Tavily agent)">>
    ELSE IF agent_name = <<"block_agent">> THEN <<"(block agent)">>
    ELSE agent_name

\* lines 198-216: the header of an agent
AgentHeader(agent) ==
    <<"#### (box) **">>
    \o DisplayName(PyStr(DictGet(agent, K_name, JStr(<<"U","n","k","n","o","w","n">>))))
    \o <<"*", "*">>
    \o (IF Truthy(agent, K_execution_time_ms)
        THEN <<" *((execution time): ">> \o FormatSeconds(Get(agent, K_execution_time_ms))
               \o <<"(seconds))*">>
        ELSE <<>>)

NonBlank(line) == Strip(line) # <<>>

\* lines 228-231: the lines of a text that are not blank, each quoted
QuotedLines(content) ==
    LET kept == SelectSeq(SplitLines(content), NonBlank)
    IN  [k \in 1..Len(kept) |-> <<">", Space>> \o kept[k]]

IsTextMessage(msg) == Get(msg, K_type) = JStr(<<"t","e","x","t">>)
IsJsonMessage(msg) == Get(msg, K_type) = JStr(<<"j","s","o","n">>)

\* lines 221-231: a text message
TextMessageLines(msg) ==
    IF Strip(Get(msg, K_content)[2]) = <<>> THEN <<>>
    ELSE << <<>> >> \o QuotedLines(Strip(Get(msg, K_content)[2]))

\* lines 233-242: a json message
JsonMessageLines(msg) ==
    << <<>>, <<"(code fence)", "j","s","o","n">> >>
    \o (IF Get(msg, K_content)[1] = "arr"
        THEN [i \in 1..Len(Get(msg, K_content)[2]) |->
                DumpsIndent(Get(msg, K_content)[2][i], 0)]
        ELSE <<DumpsIndent(Get(msg, K_content), 0)>>)
    \o << <<"(code fence)">> >>

\* the lines of one message; a message of another type gives none
MessageLines(msg) ==
    IF IsTextMessage(msg) THEN TextMessageLines(msg)
    ELSE IF IsJsonMessage(msg) THEN JsonMessageLines(msg)
    ELSE <<>>

\* has_content after the message
MessageHasContent(msg) ==
    \/ IsJsonMessage(msg)
    \/ IsTextMessage(msg) /\ Strip(Get(msg, K_content)[2]) # <<>>

RECURSIVE MessagesLines(_)
MessagesLines(msgs) ==
    IF msgs = <<>> THEN <<>>
    ELSE MessageLines(Head(msgs)) \o MessagesLines(Tail(msgs))

\* agent.get("messages", [])
AgentMessages(agent) == DictGet(agent, K_messages, JArr(<<>>))[2]

\* lines 245-249: the line of an agent without content
NoContentLine(agent) ==
    IF DictGet(agent, K_status, JNull) = JStr(<<"s","k","i","p","p","e","d">>)
    THEN <<"> *((skipped))*">>
    ELSE <<"> *((no output))*">>

\* lines 197-249: the lines of the i-th agent
AgentLines(agent, i) ==
    (IF i > 1 THEN << <<>> >> ELSE <<>>)
    \o <<AgentHeader(agent)>>
    \o MessagesLines(AgentMessages(agent))
    \o (IF \E k \in 1..Len(AgentMessages(agent)) :
              MessageHasContent(AgentMessages(agent)[k])
        THEN <<>> ELSE <<NoContentLine(agent)>>)

RECURSIVE AgentsLines(_, _)
AgentsLines(agent_list, i) ==
    IF i > Len(agent_list) THEN <<>>
    ELSE AgentLines(agent_list[i], i) \o AgentsLines(agent_list, i + 1)

\* lines 252-258: the full text, when there are no agents
FullTextLines(data) ==
    << <<"### (memo) (result)", Newline>> >>
    \o SelectSeq(SplitLines(Get(data, K_full_text)[2]), NonBlank)

\* value > 0, of a number or a bool
Positive(value) ==
    IF value[1] = "bool" THEN value[2]
    ELSE value[2][1] # "-" /\ value[2] # T_nan /\ ~Falsy(value)

\* lines 266-272: the details of the metadata
MetadataDetails(metadata) ==
    (IF Truthy(metadata, K_total_nodes)
     THEN << <<"(total nodes): ">> \o PyStr(Get(metadata, K_total_nodes)) >> ELSE <<>>)
    \o (IF Truthy(metadata, K_completed_nodes)
        THEN << <<"(completed): ">> \o PyStr(Get(metadata, K_completed_nodes)) >> ELSE <<>>)
    \o (IF Positive(DictGet(metadata, K_failed_nodes, JNum(<<"0">>)))
        THEN << <<"(failed): ">> \o PyStr(Get(metadata, K_failed_nodes)) >> ELSE <<>>)

\* lines 261-273: the metadata, when it counts nodes
MetadataLines(data) ==
    IF /\ Truthy(data, K_metadata)
       /\ \/ Truthy(Get(data, K_metadata), K_total_nodes)
          \/ Truthy(Get(data, K_metadata), K_completed_nodes)
    THEN << RuleLine,
            <<"##### (chart) (execution details)">>,
            <<"*">> \o Join(MetadataDetails(Get(data, K_metadata)), <<Space, "|", Space>>)
              \o <<"*">> >>
    ELSE <<>>

\* str(e) of the exceptions format_structured_response raises; no
\* exception is the empty text
NoError == <<>>

T_object == <<Space,"o","b","j","e","c","t",Space>>

\* AttributeError:  'list' object has no attribute 'get'
NoAttribute(value, name) ==
    <<"'">> \o PyTypeName(value) \o <<"'">> \o T_object
    \o <<"h","a","s",Space,"n","o",Space,"a","t","t","r","i","b","u","t","e",Space,"'">>
    \o name \o <<"'">>

\* TypeError:  'int' object is not iterable
NotIterable(value) ==
    <<"'">> \o PyTypeName(value) \o <<"'">> \o T_object
    \o <<"i","s",Space,"n","o","t",Space,"i","t","e","r","a","b","l","e">>

\* TypeError of value["type"] on a value that is not a dict
NotSubscriptable(value) ==
    IF value[1] = "str"
    THEN <<"s","t","r","i","n","g",Space,"i","n","d","i","c","e","s",Space,"m","u","s","t",
           Space,"b","e",Space,"i","n","t","e","g","e","r","s",",",Space,"n","o","t",Space,
           "'","s","t","r","'">>
    ELSE IF value[1] = "arr"
    THEN <<"l","i","s","t",Space,"i","n","d","i","c","e","s",Space,"m","u","s","t",Space,
           "b","e",Space,"i","n","t","e","g","e","r","s",Space,"o","r",Space,
           "s","l","i","c","e","s",",",Space,"n","o","t",Space,"s","t","r">>
    ELSE <<"'">> \o PyTypeName(value) \o <<"'">> \o T_object
         \o <<"i","s",Space,"n","o","t",Space,"s","u","b","s","c","r","i","p","t","a","b","l","e">>

\* KeyError:  'type'
MissingKey(key) == <<"'">> \o key \o <<"'">>

\* value / 1000
DivisionOverflows(value) ==
    /\ value[1] = "num"
    /\ ~IsFloatText(value[2])
    /\ Thousandth(DecimalOf(value[2]), FALSE).kind = "inf"

DivideError(value) ==
    IF value[1] = "bool" THEN NoError
    ELSE IF value[1] = "num"
    THEN (IF DivisionOverflows(value)
          THEN <<"i","n","t","e","g","e","r",Space,"d","i","v","i","s","i","o","n",Space,
                 "r","e","s","u","l","t",Space,"t","o","o",Space,"l","a","r","g","e",Space,
                 "f","o","r",Space,"a",Space,"f","l","o","a","t">>
          ELSE NoError)
    ELSE <<"u","n","s","u","p","p","o","r","t","e","d",Space,"o","p","e","r","a","n","d",
           Space,"t","y","p","e","(","s",")",Space,"f","o","r",Space,"/",":",Space,"'">>
         \o PyTypeName(value) \o <<"'",Space,"a","n","d",Space,"'","i","n","t","'">>

\* f"{value:,}"
GroupError(value) ==
    IF value[1] \in {"num", "bool"} THEN NoError
    ELSE IF value[1] = "str"
    THEN <<"C","a","n","n","o","t",Space,"s","p","e","c","i","f","y",Space,"'",",","'",
           Space,"w","i","t","h",Space,"'","s","'",".">>
    ELSE <<"u","n","s","u","p","p","o","r","t","e","d",Space,"f","o","r","m","a","t",Space,
           "s","t","r","i","n","g",Space,"p","a","s","s","e","d",Space,"t","o",Space>>
         \o PyTypeName(value) \o <<".","_","_","f","o","r","m","a","t","_","_">>

\* value > 0
CompareError(value) ==
    IF value[1] \in {"num", "bool"} THEN NoError
    ELSE <<"'",">","'",Space,"n","o","t",Space,"s","u","p","p","o","r","t","e","d",Space,
           "b","e","t","w","e","e","n",Space,"i","n","s","t","a","n","c","e","s",Space,
           "o","f",Space,"'">>
         \o PyTypeName(value) \o <<"'",Space,"a","n","d",Space,"'","i","n","t","'">>

\* the first of the errors that is one
FirstError(errors) ==
    IF \A i \in 1..Len(errors) : errors[i] = NoError THEN NoError
    ELSE errors[CHOOSE i \in 1..Len(errors) :
                   errors[i] # NoError /\ \A j \in 1..(i - 1) : errors[j] = NoError]

\* msg['content'] of a message of type text or json
ContentError(msg) ==
    IF ~HasKey(msg, K_content) THEN MissingKey(K_content)
    ELSE IF IsTextMessage(msg) /\ Get(msg, K_content)[1] # "str"
    THEN NoAttribute(Get(msg, K_content), <<"s","t","r","i","p">>)
    ELSE NoError

\* lines 221-242 on one message
MessageError(msg) ==
    IF msg[1] # "obj" THEN NotSubscriptable(msg)
    ELSE IF ~HasKey(msg, K_type) THEN MissingKey(K_type)
    ELSE IF IsTextMessage(msg) \/ IsJsonMessage(msg) THEN ContentError(msg)
    ELSE NoError

\* for msg in agent.get("messages", [])
MessagesError(messages) ==
    IF messages[1] \in {"num", "bool", "null"} THEN NotIterable(messages)
    ELSE FirstError([k \in 1..Len(Iterated(messages)) |-> MessageError(Iterated(messages)[k])])

\* the display name is looked up in a dict: the name is hashed
NameError(name) ==
    IF name[1] \in {"arr", "obj"}
    THEN <<"u","n","h","a","s","h","a","b","l","e",Space,"t","y","p","e",":",Space,"'">>
         \o PyTypeName(name) \o <<"'">>
    ELSE NoError

AgentTimeError(agent) ==
    IF Truthy(agent, K_execution_time_ms)
    THEN DivideError(Get(agent, K_execution_time_ms)) ELSE NoError

\* lines 198-249 on one agent
AgentError(agent) ==
    IF agent[1] # "obj" THEN NoAttribute(agent, <<"g","e","t">>)
    ELSE FirstError(<<NameError(DictGet(agent, K_name, JNull)),
                      AgentTimeError(agent),
                      MessagesError(DictGet(agent, K_messages, JArr(<<>>)))>>)

\* for i, agent in enumerate(data["agents"])
AgentsError(agent_list) ==
    IF agent_list[1] \in {"num", "bool"} THEN NotIterable(agent_list)
    ELSE FirstError([i \in 1..Len(Iterated(agent_list)) |->
                        AgentError(Iterated(agent_list)[i])])

\* lines 196-258
BodyError(data) ==
    IF Truthy(data, K_agents) THEN AgentsError(Get(data, K_agents))
    ELSE IF Truthy(data, K_full_text) /\ Get(data, K_full_text)[1] # "str"
    THEN NoAttribute(Get(data, K_full_text), <<"s","p","l","i","t">>)
    ELSE NoError

\* lines 263-271 on the metadata
DetailsError(metadata) ==
    IF metadata[1] # "obj" THEN NoAttribute(metadata, <<"g","e","t">>)
    ELSE IF Truthy(metadata, K_total_nodes) \/ Truthy(metadata, K_completed_nodes)
    THEN CompareError(DictGet(metadata, K_failed_nodes, JNum(<<"0">>)))
    ELSE NoError

MetadataError(data) ==
    IF Truthy(data, K_metadata) THEN DetailsError(Get(data, K_metadata)) ELSE NoError

TimeError(data) ==
    IF Truthy(data, K_total_execution_time_ms)
    THEN DivideError(Get(data, K_total_execution_time_ms)) ELSE NoError

TokensError(data) ==
    IF Truthy(data, K_total_tokens)
    THEN GroupError(Get(data, K_total_tokens)) ELSE NoError

\* str(e) of the exception format_structured_response raises on the data
\* (AttributeError, TypeError, ValueError, KeyError): the first in the order
\* of the function's statements; NoError if it raises none
FormatError(data) ==
    IF data[1] # "obj" THEN NoAttribute(data, <<"g","e","t">>)
    ELSE FirstError(<<TimeError(data), TokensError(data), BodyError(data),
                      MetadataError(data)>>)

\* lines 196-258: the agents, or else the full text
BodyLines(data) ==
    IF Truthy(data, K_agents) THEN AgentsLines(Get(data, K_agents)[2], 1)
    ELSE IF Truthy(data, K_full_text) THEN FullTextLines(data)
    ELSE <<>>

\* format_structured_response, when it does not raise
format_structured_response(data) ==
    Join(<<StatusHeader(data)>> \o StatsLines(data) \o <<RuleLine>>
           \o BodyLines(data) \o MetadataLines(data),
         <<Newline>>)

\* what the branches of lines 432-486 leave in display_content, or the
\* exception that leaves them, as its str(e)
Shown(content) == [raised |-> FALSE, content |-> content]
Raised(text) == [raised |-> TRUE, content |-> JStr(text)]

\* lines 457-461: the text is the JSON encoding of a Report
TextHoldsReport(message) ==
    /\ StartsWith(Strip(message), <<"{">>)
    /\ Strip(message)[Len(Strip(message))] = "}"
    /\ Loads(message).ok
    /\ Loads(message).val[1] = "obj"
    /\ HasKey(Loads(message).val, K_agents)
    /\ HasKey(Loads(message).val, K_status)
    /\ FormatError(Loads(message).val) = NoError

\* lines 442-450
DisplayStructured(data) ==
    IF FormatError(data) # NoError THEN Raised(FormatError(data))
    ELSE Shown(JStr(format_structured_response(data)))

\* lines 432-486
DisplayContent(response_result) ==
    IF response_result.type \in {"error", "empty"} THEN Shown(response_result.message)
    ELSE IF response_result.type = "structured"
    THEN DisplayStructured(response_result.data)
    ELSE IF TextHoldsReport(response_result.message[2])
         THEN Shown(JStr(format_structured_response(Loads(response_result.message[2]).val)))
         ELSE Shown(response_result.message)

UserMessage(prompt) == [role |-> "user", content |-> JStr(prompt)]
AssistantMessage(content) == [role |-> "assistant", content |-> content]

\* lines 495-504:  error_msg = f"(an error occurred): {str(e)}"
ChatErrorMessage(text) == AssistantMessage(JStr(<<"(an error occurred): ">> \o text))

\* lines 488-504: what the handler appends after the user's message
Reply(display) ==
    IF display.raised THEN <<ChatErrorMessage(display.content[2])>>
    ELSE IF ~Falsy(display.content) THEN <<AssistantMessage(display.content)>>
    ELSE <<>>

\* what the runtime call of a turn gives: the response process_agent_response
\* reads, or an exception of invoke_agent_runtime
ChatResponses ==
    { Bytes(Dumps(Aggregate(RunEntryFailed, JObj(<< <<K_prompt, JStr(T_go)>> >>)))),
      Bytes(Dumps(Aggregate(RunBothCompleted, JObj(<< <<K_prompt, JStr(T_go)>> >>)))),
      Bytes(Dumps(JStr(Dumps(Aggregate(RunEntryFailed, JObj(<<>>)))))),
      Bytes(Dumps(ErrorDict(<<"b","o","o","m">>))),
      Bytes(Dumps(ErrorDict(<<>>))),
      Bytes(Dumps(JObj(<< <<<<"k">>, JStr(<<"v">>)>> >>))),
      Bytes(Dumps(JArr(<<JNum(<<"1">>)>>))),
      Bytes(Dumps(JObj(<< <<K_agents, JArr(<<JNum(<<"1">>)>>)>> >>))),
      Bytes(Dumps(JStr(<<>>))),
      Bytes(T_hello),
      Bytes(<<>>),
      Bytes(<<BadByte>>),
      [kind |-> "raises", data |-> <<"b","o","o","m">>],
      [kind |-> "invoke_raises", data |-> <<"t","i","m","e","o","u","t">>] }

\* a prompt st.chat_input returns: never empty
ChatPrompts == {T_go, T_hello}

\* lines 401-504: what the handler appends for each outcome of the runtime
\* call: the exception of the call, or the decoded response as displayed
ReplyTo ==
    [response \in ChatResponses |->
        IF response.kind = "invoke_raises"
        THEN <<ChatErrorMessage(response.data)>>
        ELSE Reply(DisplayContent(process_agent_response(response)))]

\* An event of the page (a prompt, a click, an edited field) reruns the
\* script.  When it comes while the script blocks in the call of line 420,
\* Streamlit stops that run at its next st command by an exception that is
\* not an Exception (lines 495 and 483 do not catch it).  Every path from
\* line 420 to the appends of lines 490 and 501 passes an st command
\* (response_container.error, .warning or .markdown), so the run that is
\* stopped appends no reply.

\* lines 386-420: st.chat_input returns the prompt, the user's message is
\* appended, and the script goes into the runtime call; a run still in its
\* call is stopped
SubmitPrompt(prompt) ==
    /\ chat.turns < MaxTurns
    /\ chat' = [turns |-> chat.turns + 1,
                messages |-> Append(chat.messages, UserMessage(prompt)),
                pc |-> "calling",
                stopped |-> IF chat.pc = "calling" THEN chat.stopped + 1
                            ELSE chat.stopped]
    /\ UNCHANGED <<requestVars, fetch, remote, route, decode, streaming>>

\* lines 420-504: the runtime call returns or raises, the response is
\* decoded and shown, the assistant's message is appended, and the script
\* runs to its end
InvokeReturns(response) ==
    /\ chat.pc = "calling"
    /\ chat' = [chat EXCEPT !.messages = chat.messages \o ReplyTo[response],
                            !.pc = "idle"]
    /\ UNCHANGED <<requestVars, fetch, remote, route, decode, streaming>>

\* lines 347-350: the button is clicked; the rerun sets the history to []
\* and st.rerun() starts the script again, which runs to its end; a run
\* still in its call is stopped
ClearHistory ==
    /\ chat.messages # <<>>
    /\ chat' = [chat EXCEPT !.messages = <<>>, !.pc = "idle", !.stopped = 0]
    /\ UNCHANGED <<requestVars, fetch, remote, route, decode, streaming>>

\* lines 294-316: a text field of the sidebar is edited while the script is
\* in its call; the run is stopped and the rerun, with no prompt from
\* st.chat_input, runs to its end.  (Edited while the script is idle, the
\* rerun leaves the history as it is.)
RerunScript ==
    /\ chat.pc = "calling"
    /\ chat' = [chat EXCEPT !.pc = "idle", !.stopped = chat.stopped + 1]
    /\ UNCHANGED <<requestVars, fetch, remote, route, decode, streaming>>

InitChat ==
    /\ RequestIdle
    /\ remote = [pages |-> <<<<>>>>, endless |-> FALSE]
    /\ fetch = FetchIdle
    /\ route = RouteIdle
    /\ decode = DecodeIdle
    /\ chat = ChatIdle
    /\ streaming = StreamIdle

NextChat ==
    \/ \E prompt \in ChatPrompts : SubmitPrompt(prompt)
    \/ \E response \in ChatResponses : InvokeReturns(response)
    \/ ClearHistory
    \/ RerunScript

SpecChat == InitChat /\ [][NextChat]_vars

\* C20: as long as no run of the script has been stopped in its call, the
\* stored history alternates user, assistant from its first message on,
\* and it ends with an assistant message once the script has run to its
\* end (with the user message of the turn while the runtime call of that
\* turn is under way): every submitted prompt whose handler ran to its end
\* has added exactly one user message followed by exactly one assistant
\* message, whatever the response decoded to and also when the runtime
\* call raised; and a cleared history is empty.
C20_HistoryAlternates ==
    chat.stopped = 0 =>
        /\ \A i \in 1..Len(chat.messages) :
              chat.messages[i].role = IF i % 2 = 1 THEN "user" ELSE "assistant"
        /\ chat.pc = "idle" => Len(chat.messages) % 2 = 0
        /\ chat.pc = "calling" => Len(chat.messages) % 2 = 1

-----------------------------------------------------------------------------
(* TavilyAgentFactory.stream, lines 337-341: an async generator over the    *)
(* events of agent.stream_async(prompt).  invoke_agent_graph does not call  *)
(* it (it runs the agents through the graph); a caller that holds an agent  *)
(* of the factory makes the generator and asks it for one event at a time,  *)
(* and at every yield the generator is suspended and the caller runs.  The  *)
(* docstring (line 338) asks the caller to be inside  with mcp_client: ;    *)
(* the generator does not check it.  The agent works over the gateway       *)
(* session while it produces an event.                                       *)

\* events one agent run produces at most
MaxEvents == 3

\* line 340: ev is not None
NotNone(ev) == ev # JNull

\* the whole of a run: the events that are not None, in order
stream(events) == SelectSeq(events, NotNone)

StreamEvent_a == JStr(<<"a">>)
StreamEvent_b == JStr(<<"b">>)

RECURSIVE EventRuns(_)
EventRuns(n) ==
    IF n = 0 THEN {<<>>}
    ELSE LET shorter == EventRuns(n - 1)
         IN  shorter \cup
             {Append(run, ev) : run \in {r \in shorter : Len(r) = n - 1},
                                ev \in {StreamEvent_a, JNull, StreamEvent_b}}

\* what agent.stream_async(prompt) may produce
AgentEvents == EventRuns(MaxEvents)

\* the caller runs: no generator is between a request for an event and its
\* yield
CallerRuns == streaming.pc \in {"idle", "suspended", "done"}

\* the caller's  with mcp_client:  is entered (line 338 asks for it)
CallerEnters ==
    /\ CallerRuns
    /\ mcp.state = "unopened"
    /\ mcp' = [mcp EXCEPT !.state = "open", !.enters = mcp.enters + 1]
    /\ UNCHANGED <<pc, env, payload, user_message, exc, agents, graph,
                   structured_response, yielded, fetch, remote, route, decode,
                   chat, streaming>>

\* the caller's  with mcp_client:  is left, whether or not the generator
\* has run to its end
CallerExits ==
    /\ CallerRuns
    /\ mcp.state = "open"
    /\ mcp' = [mcp EXCEPT !.state = "released", !.exits = mcp.exits + 1]
    /\ UNCHANGED <<pc, env, payload, user_message, exc, agents, graph,
                   structured_response, yielded, fetch, remote, route, decode,
                   chat, streaming>>

\* line 337: stream(agent, prompt) is called; the call makes the generator
\* and runs none of its body
StreamCall(events) ==
    /\ streaming.pc = "idle"
    /\ streaming' = [pc |-> "suspended", events |-> events, at |-> 0,
                     yielded |-> <<>>]
    /\ UNCHANGED <<requestVars, fetch, remote, route, decode, chat>>

\* the caller asks the generator for its next event (async for, __anext__):
\* the body runs on from where it was suspended
StreamAnext ==
    /\ streaming.pc = "suspended"
    /\ streaming' = [streaming EXCEPT !.pc = "running"]
    /\ UNCHANGED <<requestVars, fetch, remote, route, decode, chat>>

\* lines 339-341: the agent produces its next event, working over the
\* session; an event that is not None is yielded and the generator is
\* suspended, None is passed over and the loop goes on
StreamEvent ==
    /\ streaming.pc = "running"
    /\ streaming.at < Len(streaming.events)
    /\ LET ev == streaming.events[streaming.at + 1]
       IN  streaming' =
               [streaming EXCEPT
                   !.at = streaming.at + 1,
                   !.yielded = IF NotNone(ev) THEN Append(streaming.yielded, ev)
                               ELSE streaming.yielded,
                   !.pc = IF NotNone(ev) THEN "suspended" ELSE "running"]
    /\ mcp' = Use(mcp)
    /\ UNCHANGED <<pc, env, payload, user_message, exc, agents, graph,
                   structured_response, yielded, fetch, remote, route, decode,
                   chat>>

\* line 339: agent.stream_async(prompt) is exhausted, the generator ends
StreamEnd ==
    /\ streaming.pc = "running"
    /\ streaming.at = Len(streaming.events)
    /\ streaming' = [streaming EXCEPT !.pc = "done"]
    /\ UNCHANGED <<requestVars, fetch, remote, route, decode, chat>>

InitStream ==
    /\ RequestIdle
    /\ remote = [pages |-> <<<<>>>>, endless |-> FALSE]
    /\ fetch = FetchIdle
    /\ route = RouteIdle
    /\ decode = DecodeIdle
    /\ chat = ChatIdle
    /\ streaming = StreamIdle

NextStream ==
    \/ CallerEnters
    \/ CallerExits
    \/ \E events \in AgentEvents : StreamCall(events)
    \/ StreamAnext
    \/ StreamEvent
    \/ StreamEnd

SpecStream == InitStream /\ [][NextStream]_vars

\* what the generator has yielded so far is the events it has taken from
\* the agent that are not None, in order
StreamYieldsNotNone ==
    streaming.yielded = stream(SubSeq(streaming.events, 1, streaming.at))

\* the generator is suspended only before its first event and after a
\* yield, and it ends only when the agent's events are exhausted
StreamSuspendsAtYields ==
    /\ streaming.pc = "suspended" /\ streaming.at > 0
           => NotNone(streaming.events[streaming.at])
    /\ streaming.pc = "done" => streaming.at = Len(streaming.events)

\* a run made outside the with block: nothing entered, nothing left, the
\* events yielded all the same
StreamOutsideSession ==
    /\ streaming.pc = "done"
    /\ streaming.events = <<StreamEvent_a, JNull, StreamEvent_b>>
    /\ streaming.yielded = <<StreamEvent_a, StreamEvent_b>>
    /\ mcp.used_closed /\ ~mcp.used_open
    /\ mcp.enters = 0 /\ mcp.exits = 0

=============================================================================
